---- MODULE Spec2Model ----
(***************************************************************************)
(* Document lifecycle, predictive analysis and video extraction pipeline   *)
(* of the TotalQuality document module.                                    *)
(*                                                                         *)
(* The store is Firestore: collection 'documents' (docs) and, under each   *)
(* document, the subcollection 'history' (history).  DocumentService       *)
(* methods are async: every await on a store call is a point where other   *)
(* requests run, so each method is a sequence of steps per caller.         *)
(*                                                                         *)
(* A version string 'M.m' is the pair <<M, m>>; a history document id is   *)
(* the record [prefix, versao], prefix being "" or "obsoleto-".            *)
(***************************************************************************)
EXTENDS Integers, Sequences, FiniteSets, TLC

\* ---------------------------------------------------------------- bounds
MaxClock == 1
MaxMajor == 2

\* Document ids in the order uuidv4() hands them out, and the callers.
DocIdSeq == <<"d1", "d2">>
DocIds   == {DocIdSeq[i] : i \in DOMAIN DocIdSeq}
Procs    == {"p1", "p2"}

\* ------------------------------------------------------------- constants
Absent  == [exists |-> FALSE]
Omitted == "omitted"
NoDoc   == [none |-> TRUE]

DocumentStatus == {"rascunho", "revisao", "ativo", "obsoleto"}

\* Inputs handed to createDocument by callers.  An optional field is the set
\* of its values: {} when the caller leaves it out.
CreateInputs ==
  { [orgId |-> "orgA", tipo |-> "POP", titulo |-> "T", contentHash |-> "h",
     criadoPor |-> "u", custoManutencao |-> {850}, impactoMargem |-> {"alto"}],
    [orgId |-> "orgB", tipo |-> "Manual", titulo |-> "T", contentHash |-> "h",
     criadoPor |-> "u", custoManutencao |-> {}, impactoMargem |-> {}] }

Approvers == {"mgr"}
Motivos   == {Omitted, "motivo"}

VARIABLES
  docs,     \* collection 'documents': document id -> document or Absent
  history,  \* subcollection 'history' of each document: key -> entry
  clock,    \* the time Timestamp.now() returns
  nextId,   \* position of the next uuid in DocIdSeq
  pc,       \* per caller: the await its call is suspended at
  loc,      \* per caller: the locals of its call
  ret,      \* what the step just taken returned or threw to its caller
  pops      \* companies/{orgId}/pops: <<orgId, videoId>> -> extraction record

vars == <<docs, history, clock, nextId, pc, loc, ret, pops>>

\* ------------------------------------------------------- pure functions

\* incrementVersion advancing the minor component instead of the major one.
incrementVersion_minor(currentVersion) ==
  <<currentVersion[1], currentVersion[2] + 1>>

\* incrementVersion: parts = split('.'), major = parseInt(parts[0]).
incrementVersion(currentVersion) ==
  LET major == currentVersion[1]
  IN  IF major = 0 THEN <<1, 0>> ELSE <<major + 1, 0>>

\* input.custoManutencao || 0: the default replaces a missing or falsy value.
custoOrDefault(v) == IF v = {} \/ v = {0} THEN 0 ELSE CHOOSE x \in v : TRUE

\* The default of impactoMargem taken to be 'medio'.
impactoOrDefault_medio(v) ==
  IF v = {} \/ v = {""} THEN "medio" ELSE CHOOSE x \in v : TRUE

\* input.impactoMargem || 'baixo'.
impactoOrDefault(v) == IF v = {} \/ v = {""} THEN "baixo" ELSE CHOOSE x \in v : TRUE

\* The document literal of createDocument.
NewDocument(id, input, t) ==
  [exists        |-> TRUE,
   docId         |-> id,
   orgId         |-> input.orgId,
   tipo          |-> input.tipo,
   titulo        |-> input.titulo,
   status        |-> "rascunho",
   versao        |-> <<0, 1>>,
   contentHash   |-> input.contentHash,
   metadata      |-> [criadoPor     |-> input.criadoPor,
                      dataCriacao   |-> t,
                      ultimaRevisao |-> t],
   axiomaMetrics |-> [custoManutencao |-> custoOrDefault(input.custoManutencao),
                      impactoMargem   |-> impactoOrDefault(input.impactoMargem)]]

\* historyEntry of approveDocument.
ApproveHistoryEntry(cur, t, by, m) ==
  [docId |-> cur.docId, versao |-> cur.versao, documentSnapshot |-> cur,
   arquivadoEm |-> t, aprovadoPor |-> by, motivoMudanca |-> m]

\* The approval's history document keyed by the new version.
ApproveHistoryKey_new(cur) ==
  [prefix |-> "", versao |-> incrementVersion(cur.versao)]

\* History document id used by approveDocument: the version itself.
ApproveHistoryKey(cur) == [prefix |-> "", versao |-> cur.versao]

\* updatedDoc of approveDocument.
ApprovedDoc(cur, v, t) ==
  [cur EXCEPT !.status = "ativo", !.versao = v, !.metadata.ultimaRevisao = t]

\* historyEntry of obsoleteDocument.
ObsoleteHistoryEntry(cur, t, m) ==
  [docId |-> cur.docId, versao |-> cur.versao, documentSnapshot |-> cur,
   arquivadoEm |-> t, aprovadoPor |-> "SYSTEM",
   motivoMudanca |-> IF m = Omitted THEN "Documento marcado como obsoleto" ELSE m]

\* History document id used by obsoleteDocument: `obsoleto-${versao}`.
ObsoleteHistoryKey(cur) == [prefix |-> "obsoleto-", versao |-> cur.versao]

\* updatedDoc of obsoleteDocument built without spreading currentDoc.metadata.
ObsoletedDoc_nospread(cur, t) ==
  [cur EXCEPT !.status = "obsoleto",
              !.metadata = [criadoPor |-> cur.metadata.criadoPor,
                            dataCriacao |-> t, ultimaRevisao |-> t]]

\* updatedDoc of obsoleteDocument.
ObsoletedDoc(cur, t) ==
  [cur EXCEPT !.status = "obsoleto", !.metadata.ultimaRevisao = t]

\* ------------------------------------------------------ store primitives

\* DocumentReference.set on a history document: creates or overwrites.
HistorySet(h, d, key, entry) ==
  [h EXCEPT ![d] = [k \in (DOMAIN h[d]) \cup {key} |->
                      IF k = key THEN entry ELSE h[d][k]]]

\* DocumentReference.update with a full document: every field is written.
DocUpdate(ds, d, doc) == [ds EXCEPT ![d] = doc]

\* What a call hands back: the returned document, or the error thrown
\* ("NotFound": `Documento ${docId} nao encontrado`; "InvalidTransition":
\* 'Nao e possivel aprovar um documento obsoleto').
Ok(p, op, d, doc)   == [proc |-> p, op |-> op, docId |-> d, kind |-> "ok", doc |-> doc]
Err(p, op, d, kind) == [proc |-> p, op |-> op, docId |-> d, kind |-> kind, doc |-> NoDoc]
NoRet == [proc |-> "none", op |-> "none", docId |-> "none", kind |-> "none",
          doc |-> NoDoc]

\* approveDocument without its validation.
CannotApprove_never(cur) == FALSE

\* approveDocument's validation: an obsolete document cannot be approved.
CannotApprove(cur) == cur.status = "obsoleto"

\* approveDocument archives the previous version only if it is active.
ArchivesOnApprove(cur) == cur.status = "ativo"

AllIdle == \A p \in Procs : pc[p] = "idle"

\* A caller between calls holds no locals.
NoLocals == [docId |-> "d1", aprovadoPor |-> "mgr", motivo |-> Omitted,
             currentDoc |-> Absent, now |-> 0, newVersion |-> <<0, 1>>]

\* ---------------------------------------------------------------- queries

\* The tenants and the optional status argument of getDocumentsByOrg.
Orgs          == {input.orgId : input \in CreateInputs}
StatusFilters == {Omitted} \cup DocumentStatus

\* A query without orderBy yields its documents by ascending document id.
IdsInOrder(S) == SelectSeq(DocIdSeq, LAMBDA d : d \in S)

\* getDocumentsByOrg's query with the tenant filter left out.
MatchesQuery_anyorg(doc, orgId, status) ==
  /\ doc.exists
  /\ status # Omitted => doc.status = status

\* where('orgId', '==', orgId), and where('status', '==', status) if given.
MatchesQuery(doc, orgId, status) ==
  /\ doc.exists
  /\ doc.orgId = orgId
  /\ status # Omitted => doc.status = status

\* snapshot.forEach(doc => documents.push(doc.data())).
DocumentsByOrg(ds, orgId, status) ==
  LET ids == IdsInOrder({d \in DocIds : MatchesQuery(ds[d], orgId, status)})
  IN  [i \in 1..Len(ids) |-> ds[ids[i]]]

\* Order of two history document ids ('M.m' or 'obsoleto-M.m') as strings:
\* a digit sorts before 'o', and one-digit components sort as numbers.
NameLess(a, b) ==
  \/ a.prefix = "" /\ b.prefix = "obsoleto-"
  \/ /\ a.prefix = b.prefix
     /\ \/ a.versao[1] < b.versao[1]
        \/ a.versao[1] = b.versao[1] /\ a.versao[2] < b.versao[2]

\* The history query ordered by arquivadoEm ascending.
Precedes_asc(hd, k, o) ==
  \/ hd[k].arquivadoEm < hd[o].arquivadoEm
  \/ hd[k].arquivadoEm = hd[o].arquivadoEm /\ NameLess(k, o)

\* orderBy('arquivadoEm', 'desc'): entry k comes before entry o; entries of
\* equal arquivadoEm follow the document id in the same direction.
Precedes(hd, k, o) ==
  \/ hd[k].arquivadoEm > hd[o].arquivadoEm
  \/ hd[k].arquivadoEm = hd[o].arquivadoEm /\ NameLess(o, k)

RECURSIVE HistoryOrder(_, _)
\* The ids of the history documents S of one document in query order.
HistoryOrder(hd, S) ==
  IF S = {} THEN << >>
  ELSE LET first == CHOOSE k \in S : \A o \in S \ {k} : Precedes(hd, k, o)
       IN  <<first>> \o HistoryOrder(hd, S \ {first})

\* snapshot.forEach(doc => history.push(doc.data())).
DocumentHistory(h, d) ==
  LET ids == HistoryOrder(h[d], DOMAIN h[d])
  IN  [i \in 1..Len(ids) |-> h[d][ids[i]]]

\* What a query hands back: the list read, with the arguments of the call.
QueryOk(p, op, orgId, status, list) ==
  [proc |-> p, op |-> op, docId |-> "none", kind |-> "ok", doc |-> list,
   orgId |-> orgId, status |-> status]

\* ------------------------------------------------------- video extractions

\* Ids of uploaded videos, and the keys of companies/{orgId}/pops/{videoId}.
VideoIdSeq == <<"v1", "v2">>
VideoIds   == {VideoIdSeq[i] : i \in DOMAIN VideoIdSeq}
PopKeys    == Orgs \X VideoIds
AbsentPop  == [exists |-> FALSE]

\* ------------------------------------------------------ revision analysis

\* this.thresholds when the service is constructed without an argument.
DefaultThresholds ==
  [daysUntilRevisionWarning  |-> 90,
   daysUntilRevisionRequired |-> 180,
   minConformityScore        |-> 70,
   maxNonConformities        |-> 3]

\* riskOrder of analyzeOrganization's comparison function.
riskOrder == ("alto" :> 3) @@ ("médio" :> 2) @@ ("baixo" :> 1)

\* An optional number is the set of its values: {} when undefined.
Present(v) == v # {}
ValueOf(v) == CHOOSE x \in v : TRUE

\* The locals of evaluateRevisionNeed before its first check.
EvalStart ==
  [needsRevision |-> FALSE, riskLevel |-> "baixo",
   reasons |-> << >>, recommendations |-> << >>]

\* A reason with its recommendation pushed; ${...} parts are left as written.
Push(e, reason, recommendation) ==
  [e EXCEPT !.reasons = Append(@, reason),
            !.recommendations = Append(@, recommendation)]

\* The time check comparing with > where the code has >=.
RuleTime_strict(e, days, th) ==
  IF days > th.daysUntilRevisionRequired
    THEN [Push(e, "Última revisão há ${dias} dias (>= ${limite} dias)",
                  "Revisão obrigatória devido ao tempo decorrido")
            EXCEPT !.riskLevel = "alto", !.needsRevision = TRUE]
    ELSE IF days > th.daysUntilRevisionWarning
      THEN [Push(e, "Última revisão há ${dias} dias (próximo do limite)",
                    "Agendar revisão em breve")
              EXCEPT !.riskLevel = IF @ = "baixo" THEN "médio" ELSE @]
      ELSE e

\* Verificar tempo desde última revisão.
RuleTime(e, days, th) ==
  IF days >= th.daysUntilRevisionRequired
    THEN [Push(e, "Última revisão há ${dias} dias (>= ${limite} dias)",
                  "Revisão obrigatória devido ao tempo decorrido")
            EXCEPT !.riskLevel = "alto", !.needsRevision = TRUE]
    ELSE IF days >= th.daysUntilRevisionWarning
      THEN [Push(e, "Última revisão há ${dias} dias (próximo do limite)",
                    "Agendar revisão em breve")
              EXCEPT !.riskLevel = IF @ = "baixo" THEN "médio" ELSE @]
      ELSE e

\* Verificar score de conformidade.
RuleScore(e, score, th) ==
  IF Present(score) /\ ValueOf(score) < th.minConformityScore
    THEN [Push(e, "Score de conformidade baixo: ${score}% (< ${min}%)",
                  "Revisar procedimentos para aumentar conformidade")
            EXCEPT !.riskLevel = "alto", !.needsRevision = TRUE]
    ELSE e

\* The non-conformity check with a branch that sets 'médio' for a count
\* within the limit.
RuleNonConformities_downgrade(e, nc, th) ==
  IF Present(nc) /\ ValueOf(nc) > th.maxNonConformities
    THEN [Push(e, "Muitas não-conformidades: ${n} (> ${max})",
                  "Corrigir não-conformidades identificadas no vídeo")
            EXCEPT !.riskLevel = "alto", !.needsRevision = TRUE]
    ELSE IF Present(nc) /\ ValueOf(nc) > 0
      THEN [e EXCEPT !.riskLevel = "médio"]
      ELSE e

\* Verificar não-conformidades.
RuleNonConformities(e, nc, th) ==
  IF Present(nc) /\ ValueOf(nc) > th.maxNonConformities
    THEN [Push(e, "Muitas não-conformidades: ${n} (> ${max})",
                  "Corrigir não-conformidades identificadas no vídeo")
            EXCEPT !.riskLevel = "alto", !.needsRevision = TRUE]
    ELSE e

\* Verificar impacto na margem.
RuleMargin(e, document) ==
  IF document.axiomaMetrics.impactoMargem = "alto"
    THEN [Push(e, "Documento tem alto impacto na margem de lucro",
                  "Priorizar revisão devido ao alto impacto financeiro")
            EXCEPT !.riskLevel = IF @ # "alto" THEN "alto" ELSE @,
                   !.needsRevision = TRUE]
    ELSE e

\* Verificar status.
RuleStatus(e, document) ==
  IF document.status = "obsoleto"
    THEN Push(e, "Documento está obsoleto",
                 "Criar nova versão ou arquivar permanentemente")
    ELSE e

\* The closing pair pushed whatever the earlier checks found.
RuleCompliance_always(e) ==
  Push(e, "Documento em conformidade", "Manter monitoramento periódico")

\* Se não há razões, documento está em conformidade.
RuleCompliance(e) ==
  IF Len(e.reasons) = 0
    THEN Push(e, "Documento em conformidade", "Manter monitoramento periódico")
    ELSE e

\* evaluateRevisionNeed: the six checks in the order of the code.
evaluateRevisionNeed(document, days, score, nc, th) ==
  RuleCompliance(
    RuleStatus(
      RuleMargin(
        RuleNonConformities(
          RuleScore(RuleTime(EvalStart, days, th), score, th), nc, th),
        document),
      document))

\* An extraction record as VideoProcessor stores it: status 'completed' with
\* the parsed popData, or status 'failed' without popData.  Optional fields
\* are sets; the lists etapas and naoConformidades are sequences.
PopRecord(companyId, videoId, status, popData) ==
  [exists |-> TRUE, videoPath |-> <<companyId, videoId>>, status |-> status,
   popData |-> popData, linkedDocumentId |-> {}]

\* DocumentReference.update with some fields: they are added or replaced.
DocMerge(doc, fields) ==
  [f \in (DOMAIN doc) \cup (DOMAIN fields) |->
     IF f \in DOMAIN fields THEN fields[f] ELSE doc[f]]

\* popData as parsed from the extraction's JSON.
PopData(titulo, etapas, naoConformidades, scoreConformidade) ==
  [titulo |-> titulo, etapas |-> etapas,
   naoConformidades |-> naoConformidades,
   scoreConformidade |-> scoreConformidade]

\* popData.popData.scoreConformidade || 0.
NumberOr0(v) == IF v = {} THEN 0 ELSE ValueOf(v)

\* popData.popData.etapas?.length || 0.
LengthOr0(v) == IF v = {} THEN 0 ELSE Len(ValueOf(v))

\* popData.popData.titulo || `POP Extraído de Vídeo ${videoId}`.
TituloOrDefault(v, videoId) ==
  IF v = {} \/ v = {""} THEN <<"POP Extraído de Vídeo", videoId>>
                        ELSE ValueOf(v)

\* calculateMaintenanceCost with the two rates exchanged.
calculateMaintenanceCost_swapped(etapas, naoConformidades) ==
  LET baseCost          == etapas * 200
      nonConformityCost == naoConformidades * 50
  IN  baseCost + nonConformityCost

\* calculateMaintenanceCost.
calculateMaintenanceCost(etapas, naoConformidades) ==
  LET baseCost          == etapas * 50
      nonConformityCost == naoConformidades * 200
  IN  baseCost + nonConformityCost

\* calculateMarginImpact with <= 85 in its second test.
calculateMarginImpact_inclusive(scoreConformidade, naoConformidades) ==
  IF scoreConformidade < 70 \/ naoConformidades > 3 THEN "alto"
  ELSE IF scoreConformidade <= 85 \/ naoConformidades > 1 THEN "médio"
  ELSE "baixo"

\* calculateMarginImpact.
calculateMarginImpact(scoreConformidade, naoConformidades) ==
  IF scoreConformidade < 70 \/ naoConformidades > 3 THEN "alto"
  ELSE IF scoreConformidade < 85 \/ naoConformidades > 1 THEN "médio"
  ELSE "baixo"

\* generateContentHash: Date.now() and the first characters of the JSON.
generateContentHash(popData, now) == <<now, "popData">>

\* documentInput of createDocumentFromVideoPOP.
VideoDocumentInput(companyId, videoId, criadoPor, popData, now) ==
  LET scoreConformidade == NumberOr0(popData.scoreConformidade)
      naoConformidades  == LengthOr0(popData.naoConformidades)
      etapas            == LengthOr0(popData.etapas)
  IN  [orgId           |-> companyId,
       tipo            |-> "POP",
       titulo          |-> TituloOrDefault(popData.titulo, videoId),
       contentHash     |-> generateContentHash(popData, now),
       criadoPor       |-> criadoPor,
       custoManutencao |-> {calculateMaintenanceCost(etapas,
                                                     naoConformidades)},
       impactoMargem   |-> {calculateMarginImpact(scoreConformidade,
                                                  naoConformidades)}]

\* The locals of createDocumentFromVideoPOP.
VideoLocals(companyId, videoId, documentInput, document) ==
  [companyId |-> companyId, videoId |-> videoId,
   documentInput |-> documentInput, document |-> document,
   videoPath |-> {}]

\* The popData an extraction can produce.
VideoPopDatas ==
  {PopData(titulo, etapas, naoConformidades, scoreConformidade) :
     titulo \in {{}, {"T"}},
     etapas \in {{}, {<< >>}, {<<"e", "e", "e", "e">>}},
     naoConformidades \in {{}, {<< >>}, {<<"n">>}, {<<"n", "n">>},
                           {<<"n", "n", "n">>}, {<<"n", "n", "n", "n">>}},
     scoreConformidade \in {{}, {0}, {69}, {70}, {84}, {85}, {100}}}

\* Length of the clock's day: (1000 * 60 * 60 * 24) ms, in clock units.
DayTicks == 2

\* document.videoId && document.orgId.
HasVideo(document) ==
  /\ "videoId" \in DOMAIN document
  /\ document.videoId # ""
  /\ document.orgId # ""

\* Math.floor((now - lastRevision) / day).
DaysSince(document, now) ==
  (now - document.metadata.ultimaRevisao) \div DayTicks

\* videoData?.popData?.scoreConformidade.
VideoScore(videoData) ==
  IF videoData.exists /\ videoData.popData # {}
    THEN ValueOf(videoData.popData).scoreConformidade
    ELSE {}

\* videoData?.popData?.naoConformidades?.length || 0.
VideoNonConformities(videoData) ==
  IF /\ videoData.exists
     /\ videoData.popData # {}
     /\ ValueOf(videoData.popData).naoConformidades # {}
    THEN Len(ValueOf(ValueOf(videoData.popData).naoConformidades))
    ELSE 0

\* The DocumentAnalysis analyzeDocument returns; videoData is AbsentPop when
\* the document has no video or its extraction record does not exist.
DocumentAnalysis(document, days, videoData) ==
  LET scoreConformidade == VideoScore(videoData)
      naoConformidades  == VideoNonConformities(videoData)
      analysis == evaluateRevisionNeed(document, days, scoreConformidade,
                                       {naoConformidades}, DefaultThresholds)
  IN  [docId           |-> document.docId,
       titulo          |-> document.titulo,
       status          |-> document.status,
       needsRevision   |-> analysis.needsRevision,
       riskLevel       |-> analysis.riskLevel,
       reasons         |-> analysis.reasons,
       recommendations |-> analysis.recommendations,
       metrics |-> [daysSinceLastRevision |-> days,
                    scoreConformidade     |-> scoreConformidade,
                    naoConformidades      |-> naoConformidades,
                    custoManutencao       |->
                      document.axiomaMetrics.custoManutencao]]

\* where('orgId', '==', orgId).where('status', 'in', ['ativo', 'revisao']).
InAnalysisQuery(doc, orgId) ==
  /\ doc.exists
  /\ doc.orgId = orgId
  /\ doc.status \in {"ativo", "revisao"}

\* The comparison function returning riskOrder[a] - riskOrder[b].
SortByRisk_asc(analyses) ==
  SelectSeq(analyses, LAMBDA a : a.riskLevel = "baixo")
    \o SelectSeq(analyses, LAMBDA a : a.riskLevel = "médio")
    \o SelectSeq(analyses, LAMBDA a : a.riskLevel = "alto")

\* analyses.sort by riskOrder[b] - riskOrder[a]: Array.prototype.sort is
\* stable, so analyses of one level keep their order.
SortByRisk(analyses) ==
  SelectSeq(analyses, LAMBDA a : a.riskLevel = "alto")
    \o SelectSeq(analyses, LAMBDA a : a.riskLevel = "médio")
    \o SelectSeq(analyses, LAMBDA a : a.riskLevel = "baixo")

\* A store read succeeds or is rejected.
Outcomes == {"ok", "unavailable"}

\* The locals of analyzeDocument and of analyzeOrganization's loop: the
\* snapshot's ids, those still to analyse, the analyses pushed, the ids
\* written by console.error, and the document under analysis.
AnalysisLocals(orgId, snapshot) ==
  [orgId |-> orgId, snapshot |-> snapshot, pending |-> snapshot,
   analyses |-> << >>, logged |-> << >>,
   document |-> Absent, daysSinceLastRevision |-> 0]

\* A failed analysis ending the loop.
OnAnalysisError_break(l, d) ==
  [l EXCEPT !.logged = Append(@, d), !.pending = << >>]

\* catch (error) { console.error(...) }: the loop goes on with the next id.
OnAnalysisError(l, d) ==
  [l EXCEPT !.logged = Append(@, d), !.pending = Tail(@)]

\* analyses.push(analysis), and on to the next id.
OnAnalysis(l, analysis) ==
  [l EXCEPT !.analyses = Append(@, analysis), !.pending = Tail(@)]

\* What analyzeOrganization hands back: the sorted analyses, with the ids
\* its console.error lines name.
OrgOk(p, orgId, analyses, logged) ==
  [proc |-> p, op |-> "analyzeOrganization", docId |-> "none", kind |-> "ok",
   doc |-> analyses, orgId |-> orgId, logged |-> logged]

\* createDocumentFromVideoPOP's checks with every unusable record reported
\* as not found.
PopCheck_notfound(popSnapshot) ==
  IF ~popSnapshot.exists \/ popSnapshot.status # "completed"
    THEN "PopNotFound" ELSE "ok"

\* createDocumentFromVideoPOP's two checks of the record read: the error
\* thrown (`POP de video ${videoId} nao encontrado ...`, `... nao esta
\* completo (status: ...)`), or "ok".
PopCheck(popSnapshot) ==
  IF ~popSnapshot.exists THEN "PopNotFound"
  ELSE IF popSnapshot.status # "completed" THEN "PopNotCompleted"
  ELSE "ok"

\* The document's side of the link written without the video id.
DocumentLink_pathonly(videoId, videoPath) == [videoPath |-> videoPath]

\* linkDocumentToVideo: the fields of docRef.update({videoId, videoPath}).
DocumentLink(videoId, videoPath) ==
  [videoId |-> videoId, videoPath |-> videoPath]

\* A field stored with the value null (a missing field is the empty set).
Null == "null"

\* where('status', '==', 'completed').where('linkedDocumentId', '==', null):
\* an equality filter matches only records that have the field, so a record
\* without linkedDocumentId is not matched.
MatchesUnlinked(pop) ==
  /\ pop.exists
  /\ pop.status = "completed"
  /\ pop.linkedDocumentId = {Null}

\* popsSnapshot.forEach(doc => unlinkedPOPs.push(doc.id)), by ascending id.
UnlinkedVideoPOPs(ps, companyId) ==
  SelectSeq(VideoIdSeq, LAMBDA v : MatchesUnlinked(ps[<<companyId, v>>]))

\* The locals of autoProcessUnlinkedPOPs: the ids found, those still to
\* process, the counter, the ids its console lines name with their outcome,
\* and the locals of the createDocumentFromVideoPOP call in progress.
AutoLocals(companyId, unlinkedPOPs) ==
  [companyId |-> companyId, unlinkedPOPs |-> unlinkedPOPs,
   pending |-> unlinkedPOPs, processed |-> 0, logged |-> << >>,
   videoId |-> "", document |-> Absent, videoPath |-> {}]

\* A failed item ending the loop.
OnItemError_break(l) ==
  [l EXCEPT !.logged = Append(@, <<Head(l.pending), "error">>),
            !.pending = << >>, !.videoId = "", !.document = Absent,
            !.videoPath = {}]

\* catch (error) { console.error(...) }: the loop goes on with the next id.
OnItemError(l) ==
  [l EXCEPT !.logged = Append(@, <<Head(l.pending), "error">>),
            !.pending = Tail(@), !.videoId = "", !.document = Absent,
            !.videoPath = {}]

\* processed++, console.log, and on to the next id.
OnItemDone(l) ==
  [l EXCEPT !.logged = Append(@, <<Head(l.pending), "ok">>),
            !.pending = Tail(@), !.processed = @ + 1, !.videoId = "",
            !.document = Absent, !.videoPath = {}]

\* What autoProcessUnlinkedPOPs hands back: the counter, with the ids found
\* and the outcomes its console lines name.
AutoOk(p, companyId, processed, unlinkedPOPs, logged) ==
  [proc |-> p, op |-> "autoProcessUnlinkedPOPs", docId |-> "none",
   kind |-> "ok", doc |-> processed, orgId |-> companyId,
   unlinkedPOPs |-> unlinkedPOPs, logged |-> logged]

\* Firestore's limit of writes per batch, at which the loop commits.
BatchLimit == 500

\* daysOld as the CLI passes it: parseInt(process.argv[3]) || 365.
DaysOlds == {365, 180}

\* cutoffDate: now minus daysOld days, in clock units.
CutoffDate(now, daysOld) == now - daysOld * DayTicks

\* where('status', '==', 'obsoleto')
\*   .where('metadata.ultimaRevisao', '<', cutoff).
MatchesObsolete(doc, cutoff) ==
  /\ doc.exists
  /\ doc.status = "obsoleto"
  /\ doc.metadata.ultimaRevisao < cutoff

\* snapshot.docs: the ids matched, ordered by the field of the inequality
\* filter and then by document id (idSeq lists the ids in id order).
ObsoleteSnapshot(ds, idSeq, cutoff) ==
  LET hits   == SelectSeq([i \in 1..Len(idSeq) |-> i],
                          LAMBDA i : MatchesObsolete(ds[idSeq[i]], cutoff))
      rev(i) == ds[idSeq[i]].metadata.ultimaRevisao
      sorted == SortSeq(hits, LAMBDA a, b :
                  rev(a) < rev(b) \/ (rev(a) = rev(b) /\ a < b))
  IN  [k \in 1..Len(sorted) |-> idSeq[sorted[k]]]

\* The deletes the one WriteBatch takes: batch.delete succeeds until the
\* loop has committed the batch at BatchLimit operations; a committed batch
\* rejects every later batch.delete, which the loop's catch counts as failed.
BatchDeletes(snapshot) ==
  SubSeq(snapshot, 1, IF Len(snapshot) < BatchLimit THEN Len(snapshot)
                      ELSE BatchLimit)

\* What cleanupObsoleteDocuments hands back: { removed, failed }, with the
\* arguments of the call.
CleanupOk(p, daysOld, dryRun, removed, failed) ==
  [proc |-> p, op |-> "cleanupObsoleteDocuments", docId |-> "none",
   kind |-> "ok", doc |-> [removed |-> removed, failed |-> failed],
   daysOld |-> daysOld, dryRun |-> dryRun]

\* db.collection('companies').get(): the tenants, by ascending id.
CompanyIdSeq == <<"orgA", "orgB">>

\* documentVideoIds: the videoId of every POP document of the tenant that
\* has one.
DocumentVideoIds(ds, companyId) ==
  {ds[d].videoId : d \in {e \in DocIds : /\ ds[e].exists
                                         /\ ds[e].orgId = companyId
                                         /\ ds[e].tipo = "POP"
                                         /\ "videoId" \in DOMAIN ds[e]
                                         /\ ds[e].videoId # ""}}

\* What cleanupOrphanedVideoPOPs hands back: { orphaned, removed }.
OrphanOk(p, dryRun, totalOrphaned, totalRemoved) ==
  [proc |-> p, op |-> "cleanupOrphanedVideoPOPs", docId |-> "none",
   kind |-> "ok",
   doc |-> [orphaned |-> totalOrphaned, removed |-> totalRemoved],
   dryRun |-> dryRun]

\* ------------------------------------------------------------------ Init
Init ==
  /\ docs = [d \in DocIds |-> Absent]
  /\ history = [d \in DocIds |-> << >>]
  /\ clock = 0
  /\ nextId = 1
  /\ pc = [p \in Procs |-> "idle"]
  /\ loc = [p \in Procs |-> NoLocals]
  /\ ret = NoRet
  /\ pops = [k \in PopKeys |-> AbsentPop]

\* --------------------------------------------------------------- actions

\* Time passes (Timestamp.now() reads this clock).
Tick ==
  /\ clock < MaxClock
  /\ clock' = clock + 1
  /\ ret' = NoRet
  /\ UNCHANGED <<docs, history, nextId, pc, loc, pops>>

\* createDocument: uuidv4(), Timestamp.now(), one set on documents/{docId}.
createDocument(p, input) ==
  /\ pc[p] = "idle"
  /\ nextId <= Len(DocIdSeq)
  /\ LET document == NewDocument(DocIdSeq[nextId], input, clock)
     IN  /\ docs' = [docs EXCEPT ![DocIdSeq[nextId]] = document]
         /\ ret' = Ok(p, "createDocument", document.docId, document)
  /\ nextId' = nextId + 1
  /\ UNCHANGED <<history, clock, pc, loc, pops>>

\* approveDocument up to its second await: docRef.get(), the two checks,
\* incrementVersion and Timestamp.now().
approveDocument_get(p, d, by, m) ==
  /\ pc[p] = "idle"
  /\ docs[d].exists => docs[d].versao[1] < MaxMajor
  /\ LET currentDoc == docs[d]
     IN  IF ~currentDoc.exists
           THEN /\ ret' = Err(p, "approveDocument", d, "NotFound")
                /\ UNCHANGED <<pc, loc>>
           ELSE IF CannotApprove(currentDoc)
             THEN /\ ret' = Err(p, "approveDocument", d, "InvalidTransition")
                  /\ UNCHANGED <<pc, loc>>
             ELSE /\ loc' = [loc EXCEPT ![p] =
                       [docId |-> d, aprovadoPor |-> by, motivo |-> m,
                        currentDoc |-> currentDoc, now |-> clock,
                        newVersion |-> incrementVersion(currentDoc.versao)]]
                  /\ pc' = [pc EXCEPT ![p] =
                              IF ArchivesOnApprove(currentDoc)
                                THEN "approve_history" ELSE "approve_update"]
                  /\ ret' = NoRet
  /\ UNCHANGED <<docs, history, clock, nextId, pops>>

\* approveDocument: history/{versao}.set(historyEntry).
approveDocument_history(p) ==
  /\ pc[p] = "approve_history"
  /\ history' = HistorySet(history, loc[p].docId,
                   ApproveHistoryKey(loc[p].currentDoc),
                   ApproveHistoryEntry(loc[p].currentDoc, loc[p].now,
                                       loc[p].aprovadoPor, loc[p].motivo))
  /\ pc' = [pc EXCEPT ![p] = "approve_update"]
  /\ ret' = NoRet
  /\ UNCHANGED <<docs, clock, nextId, loc, pops>>

\* approveDocument: docRef.update(updatedDoc) and return; update rejects
\* when the document no longer exists.
approveDocument_update(p) ==
  /\ pc[p] = "approve_update"
  /\ LET updatedDoc == ApprovedDoc(loc[p].currentDoc, loc[p].newVersion,
                                   loc[p].now)
     IN  IF docs[loc[p].docId].exists
           THEN /\ docs' = DocUpdate(docs, loc[p].docId, updatedDoc)
                /\ ret' = Ok(p, "approveDocument", loc[p].docId, updatedDoc)
           ELSE /\ ret' = Err(p, "approveDocument", loc[p].docId, "NotFound")
                /\ UNCHANGED docs
  /\ pc' = [pc EXCEPT ![p] = "idle"]
  /\ loc' = [loc EXCEPT ![p] = NoLocals]
  /\ UNCHANGED <<history, clock, nextId, pops>>

\* obsoleteDocument up to its second await: docRef.get(), the existence
\* check and Timestamp.now().
obsoleteDocument_get(p, d, m) ==
  /\ pc[p] = "idle"
  /\ LET currentDoc == docs[d]
     IN  IF ~currentDoc.exists
           THEN /\ ret' = Err(p, "obsoleteDocument", d, "NotFound")
                /\ UNCHANGED <<pc, loc>>
           ELSE /\ loc' = [loc EXCEPT ![p] =
                     [NoLocals EXCEPT !.docId = d, !.motivo = m,
                                      !.currentDoc = currentDoc, !.now = clock]]
                /\ pc' = [pc EXCEPT ![p] = "obsolete_history"]
                /\ ret' = NoRet
  /\ UNCHANGED <<docs, history, clock, nextId, pops>>

\* obsoleteDocument: history/obsoleto-{versao}.set(historyEntry).
obsoleteDocument_history(p) ==
  /\ pc[p] = "obsolete_history"
  /\ history' = HistorySet(history, loc[p].docId,
                   ObsoleteHistoryKey(loc[p].currentDoc),
                   ObsoleteHistoryEntry(loc[p].currentDoc, loc[p].now,
                                        loc[p].motivo))
  /\ pc' = [pc EXCEPT ![p] = "obsolete_update"]
  /\ ret' = NoRet
  /\ UNCHANGED <<docs, clock, nextId, loc, pops>>

\* obsoleteDocument: docRef.update(updatedDoc) and return.
obsoleteDocument_update(p) ==
  /\ pc[p] = "obsolete_update"
  /\ LET updatedDoc == ObsoletedDoc(loc[p].currentDoc, loc[p].now)
     IN  IF docs[loc[p].docId].exists
           THEN /\ docs' = DocUpdate(docs, loc[p].docId, updatedDoc)
                /\ ret' = Ok(p, "obsoleteDocument", loc[p].docId, updatedDoc)
           ELSE /\ ret' = Err(p, "obsoleteDocument", loc[p].docId, "NotFound")
                /\ UNCHANGED docs
  /\ pc' = [pc EXCEPT ![p] = "idle"]
  /\ loc' = [loc EXCEPT ![p] = NoLocals]
  /\ UNCHANGED <<history, clock, nextId, pops>>

\* Sending a document to review: a direct write of the status field by a
\* caller outside DocumentService (rascunho -> revisao, ativo -> revisao).
submitForReview(d) ==
  /\ docs[d].exists
  /\ docs[d].status \in {"rascunho", "ativo"}
  /\ docs' = [docs EXCEPT ![d].status = "revisao"]
  /\ ret' = NoRet
  /\ UNCHANGED <<history, clock, nextId, pc, loc, pops>>

\* getDocumentsByOrg: one query on 'documents', nothing written.
getDocumentsByOrg(p, orgId, status) ==
  /\ pc[p] = "idle"
  /\ ret' = QueryOk(p, "getDocumentsByOrg", orgId, status,
                    DocumentsByOrg(docs, orgId, status))
  /\ UNCHANGED <<docs, history, clock, nextId, pc, loc, pops>>

\* getDocumentHistory deleting the entries it has read.
getDocumentHistory_consume(p, d) ==
  /\ pc[p] = "idle"
  /\ ret' = Ok(p, "getDocumentHistory", d, DocumentHistory(history, d))
  /\ history' = [history EXCEPT ![d] = << >>]
  /\ UNCHANGED <<docs, clock, nextId, pc, loc, pops>>

\* getDocumentHistory: one query on documents/{docId}/history.
getDocumentHistory(p, d) ==
  /\ pc[p] = "idle"
  /\ ret' = Ok(p, "getDocumentHistory", d, DocumentHistory(history, d))
  /\ UNCHANGED <<docs, history, clock, nextId, pc, loc, pops>>

\* ------------------------------------------- evaluateRevisionNeed, by check

\* The locals of one evaluateRevisionNeed call.
EvalLocals(document, days, score, nc) ==
  [document |-> document, daysSinceLastRevision |-> days,
   scoreConformidade |-> score, naoConformidades |-> nc,
   analysis |-> EvalStart]

evaluateRevisionNeed_time(p) ==
  /\ pc[p] = "eval_time"
  /\ loc' = [loc EXCEPT ![p].analysis =
               RuleTime(@, loc[p].daysSinceLastRevision, DefaultThresholds)]
  /\ pc' = [pc EXCEPT ![p] = "eval_score"]
  /\ ret' = NoRet
  /\ UNCHANGED <<docs, history, clock, nextId, pops>>

evaluateRevisionNeed_score(p) ==
  /\ pc[p] = "eval_score"
  /\ loc' = [loc EXCEPT ![p].analysis =
               RuleScore(@, loc[p].scoreConformidade, DefaultThresholds)]
  /\ pc' = [pc EXCEPT ![p] = "eval_nc"]
  /\ ret' = NoRet
  /\ UNCHANGED <<docs, history, clock, nextId, pops>>

evaluateRevisionNeed_nc(p) ==
  /\ pc[p] = "eval_nc"
  /\ loc' = [loc EXCEPT ![p].analysis =
               RuleNonConformities(@, loc[p].naoConformidades,
                                   DefaultThresholds)]
  /\ pc' = [pc EXCEPT ![p] = "eval_margin"]
  /\ ret' = NoRet
  /\ UNCHANGED <<docs, history, clock, nextId, pops>>

evaluateRevisionNeed_margin(p) ==
  /\ pc[p] = "eval_margin"
  /\ loc' = [loc EXCEPT ![p].analysis = RuleMargin(@, loc[p].document)]
  /\ pc' = [pc EXCEPT ![p] = "eval_status"]
  /\ ret' = NoRet
  /\ UNCHANGED <<docs, history, clock, nextId, pops>>

evaluateRevisionNeed_status(p) ==
  /\ pc[p] = "eval_status"
  /\ loc' = [loc EXCEPT ![p].analysis = RuleStatus(@, loc[p].document)]
  /\ pc' = [pc EXCEPT ![p] = "eval_return"]
  /\ ret' = NoRet
  /\ UNCHANGED <<docs, history, clock, nextId, pops>>

\* The last check and the return of the four results.
evaluateRevisionNeed_return(p) ==
  /\ pc[p] = "eval_return"
  /\ ret' = Ok(p, "evaluateRevisionNeed", "none",
               RuleCompliance(loc[p].analysis))
  /\ pc' = [pc EXCEPT ![p] = "idle"]
  /\ loc' = [loc EXCEPT ![p] = NoLocals]
  /\ UNCHANGED <<docs, history, clock, nextId, pops>>

\* ------------------------------------------------- PredictiveAnalysisService

\* analyzeDocument up to its second await: docRef.get(), the existence
\* check, new Date(); a document without video is evaluated and returned.
analyzeDocument_get(p, d, outcome) ==
  /\ pc[p] = "idle"
  /\ IF outcome = "unavailable"
       THEN /\ ret' = Err(p, "analyzeDocument", d, "Unavailable")
            /\ UNCHANGED <<pc, loc>>
       ELSE IF ~docs[d].exists
         THEN /\ ret' = Err(p, "analyzeDocument", d, "NotFound")
              /\ UNCHANGED <<pc, loc>>
         ELSE IF HasVideo(docs[d])
           THEN /\ loc' = [loc EXCEPT ![p] =
                     [AnalysisLocals("none", <<d>>) EXCEPT
                        !.document = docs[d],
                        !.daysSinceLastRevision = DaysSince(docs[d], clock)]]
                /\ pc' = [pc EXCEPT ![p] = "analyze_video"]
                /\ ret' = NoRet
           ELSE /\ ret' = Ok(p, "analyzeDocument", d,
                             DocumentAnalysis(docs[d],
                                              DaysSince(docs[d], clock),
                                              AbsentPop))
                /\ UNCHANGED <<pc, loc>>
  /\ UNCHANGED <<docs, history, clock, nextId, pops>>

\* analyzeDocument: videoRef.get(), the evaluation and the return.
analyzeDocument_video(p, outcome) ==
  /\ pc[p] = "analyze_video"
  /\ LET document == loc[p].document
     IN  ret' = IF outcome = "unavailable"
                  THEN Err(p, "analyzeDocument", document.docId, "Unavailable")
                  ELSE Ok(p, "analyzeDocument", document.docId,
                          DocumentAnalysis(document,
                            loc[p].daysSinceLastRevision,
                            pops[<<document.orgId, document.videoId>>]))
  /\ pc' = [pc EXCEPT ![p] = "idle"]
  /\ loc' = [loc EXCEPT ![p] = NoLocals]
  /\ UNCHANGED <<docs, history, clock, nextId, pops>>

\* analyzeOrganization after one turn of its loop left the locals l: the
\* next turn, or after the last one the sort and the return.
OrgContinue(p, l) ==
  IF l.pending = << >>
    THEN /\ ret' = OrgOk(p, l.orgId, SortByRisk(l.analyses), l.logged)
         /\ pc' = [pc EXCEPT ![p] = "idle"]
         /\ loc' = [loc EXCEPT ![p] = NoLocals]
    ELSE /\ ret' = NoRet
         /\ pc' = [pc EXCEPT ![p] = "org_doc"]
         /\ loc' = [loc EXCEPT ![p] = l]

\* analyzeOrganization: the query for the tenant's active and in-review
\* documents.
analyzeOrganization_query(p, orgId) ==
  /\ pc[p] = "idle"
  /\ OrgContinue(p, AnalysisLocals(orgId,
         IdsInOrder({d \in DocIds : InAnalysisQuery(docs[d], orgId)})))
  /\ UNCHANGED <<docs, history, clock, nextId, pops>>

\* analyzeOrganization: analyzeDocument(doc.id) up to its second await,
\* inside try/catch.
analyzeOrganization_doc(p, outcome) ==
  /\ pc[p] = "org_doc"
  /\ LET d == Head(loc[p].pending)
     IN  IF outcome = "unavailable" \/ ~docs[d].exists
           THEN OrgContinue(p, OnAnalysisError(loc[p], d))
           ELSE IF HasVideo(docs[d])
             THEN /\ loc' = [loc EXCEPT ![p].document = docs[d],
                               ![p].daysSinceLastRevision =
                                  DaysSince(docs[d], clock)]
                  /\ pc' = [pc EXCEPT ![p] = "org_video"]
                  /\ ret' = NoRet
             ELSE OrgContinue(p, OnAnalysis(loc[p],
                      DocumentAnalysis(docs[d], DaysSince(docs[d], clock),
                                       AbsentPop)))
  /\ UNCHANGED <<docs, history, clock, nextId, pops>>

\* analyzeOrganization: the rest of analyzeDocument(doc.id) for a document
\* with a video.
analyzeOrganization_video(p, outcome) ==
  /\ pc[p] = "org_video"
  /\ LET document == loc[p].document
     IN  IF outcome = "unavailable"
           THEN OrgContinue(p, OnAnalysisError(loc[p], document.docId))
           ELSE OrgContinue(p, OnAnalysis(loc[p],
                    DocumentAnalysis(document, loc[p].daysSinceLastRevision,
                                     pops[<<document.orgId, document.videoId>>])))
  /\ UNCHANGED <<docs, history, clock, nextId, pops>>

\* ------------------------------------------------ video extraction pipeline

\* VideoProcessor: the extraction's result is set on
\* companies/{companyId}/pops/{videoId}, replacing what was there.
VideoProcessor(companyId, videoId, status, popData) ==
  /\ pops' = [pops EXCEPT ![<<companyId, videoId>>] =
                PopRecord(companyId, videoId, status, popData)]
  /\ ret' = NoRet
  /\ UNCHANGED <<docs, history, clock, nextId, pc, loc>>

\* createDocumentFromVideoPOP up to createDocument's await: popRef.get(),
\* the two checks, the computed documentInput, and createDocument's uuid,
\* Timestamp.now() and document literal.
createDocumentFromVideoPOP_get(p, companyId, videoId, criadoPor) ==
  /\ pc[p] = "idle"
  /\ nextId <= Len(DocIdSeq)
  /\ LET popData == pops[<<companyId, videoId>>]
     IN  IF PopCheck(popData) # "ok"
           THEN /\ ret' = Err(p, "createDocumentFromVideoPOP", videoId,
                              PopCheck(popData))
                /\ UNCHANGED <<pc, loc, nextId>>
           ELSE LET documentInput ==
                      VideoDocumentInput(companyId, videoId, criadoPor,
                                         ValueOf(popData.popData), clock)
                IN  /\ loc' = [loc EXCEPT ![p] =
                          VideoLocals(companyId, videoId, documentInput,
                            NewDocument(DocIdSeq[nextId], documentInput,
                                        clock))]
                    /\ nextId' = nextId + 1
                    /\ pc' = [pc EXCEPT ![p] = "video_create"]
                    /\ ret' = NoRet
  /\ UNCHANGED <<docs, history, clock, pops>>

\* createDocument's set on documents/{docId}.
createDocumentFromVideoPOP_create(p) ==
  /\ pc[p] = "video_create"
  /\ docs' = [docs EXCEPT ![loc[p].document.docId] = loc[p].document]
  /\ pc' = [pc EXCEPT ![p] = "video_link_pop"]
  /\ ret' = NoRet
  /\ UNCHANGED <<history, clock, nextId, loc, pops>>

\* linkDocumentToVideo: popRef.update({linkedDocumentId, linkedAt}); update
\* rejects when the record no longer exists.
createDocumentFromVideoPOP_linkPop(p) ==
  /\ pc[p] = "video_link_pop"
  /\ LET key == <<loc[p].companyId, loc[p].videoId>>
     IN  IF pops[key].exists
           THEN /\ pops' = [pops EXCEPT ![key].linkedDocumentId =
                              {loc[p].document.docId}]
                /\ pc' = [pc EXCEPT ![p] = "video_link_get"]
                /\ ret' = NoRet
                /\ UNCHANGED loc
           ELSE /\ ret' = Err(p, "createDocumentFromVideoPOP", loc[p].videoId,
                              "PopNotFound")
                /\ pc' = [pc EXCEPT ![p] = "idle"]
                /\ loc' = [loc EXCEPT ![p] = NoLocals]
                /\ UNCHANGED pops
  /\ UNCHANGED <<docs, history, clock, nextId>>

\* linkDocumentToVideo: (await popRef.get()).data()?.videoPath.
createDocumentFromVideoPOP_linkGet(p) ==
  /\ pc[p] = "video_link_get"
  /\ LET popData == pops[<<loc[p].companyId, loc[p].videoId>>]
     IN  loc' = [loc EXCEPT ![p].videoPath =
                   IF popData.exists THEN {popData.videoPath} ELSE {}]
  /\ pc' = [pc EXCEPT ![p] = "video_link_doc"]
  /\ ret' = NoRet
  /\ UNCHANGED <<docs, history, clock, nextId, pops>>

\* linkDocumentToVideo: docRef.update({videoId, videoPath}), then the return
\* of the document createDocument handed back.  update rejects an undefined
\* videoPath and a document that no longer exists.
createDocumentFromVideoPOP_linkDoc(p) ==
  /\ pc[p] = "video_link_doc"
  /\ LET docId == loc[p].document.docId
     IN  IF loc[p].videoPath = {}
           THEN /\ ret' = Err(p, "createDocumentFromVideoPOP", loc[p].videoId,
                              "InvalidArgument")
                /\ UNCHANGED docs
           ELSE IF ~docs[docId].exists
             THEN /\ ret' = Err(p, "createDocumentFromVideoPOP",
                                loc[p].videoId, "NotFound")
                  /\ UNCHANGED docs
             ELSE /\ docs' = [docs EXCEPT ![docId] =
                       DocMerge(@, DocumentLink(loc[p].videoId,
                                                ValueOf(loc[p].videoPath)))]
                  /\ ret' = Ok(p, "createDocumentFromVideoPOP",
                               loc[p].videoId, loc[p].document)
  /\ pc' = [pc EXCEPT ![p] = "idle"]
  /\ loc' = [loc EXCEPT ![p] = NoLocals]
  /\ UNCHANGED <<history, clock, nextId, pops>>

\* findUnlinkedVideoPOPs: one query, whose ids are returned.
findUnlinkedVideoPOPs(p, companyId) ==
  /\ pc[p] = "idle"
  /\ ret' = QueryOk(p, "findUnlinkedVideoPOPs", companyId, Omitted,
                    UnlinkedVideoPOPs(pops, companyId))
  /\ UNCHANGED <<docs, history, clock, nextId, pc, loc, pops>>

\* autoProcessUnlinkedPOPs after one turn of its loop left the locals l: the
\* next turn, or after the last one the return.
AutoContinue(p, l) ==
  IF l.pending = << >>
    THEN /\ ret' = AutoOk(p, l.companyId, l.processed, l.unlinkedPOPs,
                          l.logged)
         /\ pc' = [pc EXCEPT ![p] = "idle"]
         /\ loc' = [loc EXCEPT ![p] = NoLocals]
    ELSE /\ ret' = NoRet
         /\ pc' = [pc EXCEPT ![p] = "auto_get"]
         /\ loc' = [loc EXCEPT ![p] = l]

\* autoProcessUnlinkedPOPs: the query of findUnlinkedVideoPOPs.
autoProcessUnlinkedPOPs_find(p, companyId) ==
  /\ pc[p] = "idle"
  /\ AutoContinue(p, AutoLocals(companyId,
                                UnlinkedVideoPOPs(pops, companyId)))
  /\ UNCHANGED <<docs, history, clock, nextId, pops>>

\* The loop's createDocumentFromVideoPOP(companyId, videoId, 'AUTO-SYSTEM')
\* up to createDocument's await; an error thrown is caught by the loop.
autoProcessUnlinkedPOPs_get(p) ==
  /\ pc[p] = "auto_get"
  /\ nextId <= Len(DocIdSeq)
  /\ LET l       == loc[p]
         videoId == Head(l.pending)
         popData == pops[<<l.companyId, videoId>>]
     IN  IF PopCheck(popData) # "ok"
           THEN /\ AutoContinue(p, OnItemError(l))
                /\ UNCHANGED nextId
           ELSE LET documentInput ==
                      VideoDocumentInput(l.companyId, videoId, "AUTO-SYSTEM",
                                         ValueOf(popData.popData), clock)
                IN  /\ loc' = [loc EXCEPT ![p] =
                          [l EXCEPT !.videoId = videoId,
                                    !.document =
                                       NewDocument(DocIdSeq[nextId],
                                                   documentInput, clock)]]
                    /\ nextId' = nextId + 1
                    /\ pc' = [pc EXCEPT ![p] = "auto_create"]
                    /\ ret' = NoRet
  /\ UNCHANGED <<docs, history, clock, pops>>

\* The loop's call: createDocument's set on documents/{docId}.
autoProcessUnlinkedPOPs_create(p) ==
  /\ pc[p] = "auto_create"
  /\ docs' = [docs EXCEPT ![loc[p].document.docId] = loc[p].document]
  /\ pc' = [pc EXCEPT ![p] = "auto_link_pop"]
  /\ ret' = NoRet
  /\ UNCHANGED <<history, clock, nextId, loc, pops>>

\* The loop's call: popRef.update({linkedDocumentId, linkedAt}).
autoProcessUnlinkedPOPs_linkPop(p) ==
  /\ pc[p] = "auto_link_pop"
  /\ LET key == <<loc[p].companyId, loc[p].videoId>>
     IN  IF pops[key].exists
           THEN /\ pops' = [pops EXCEPT ![key].linkedDocumentId =
                              {loc[p].document.docId}]
                /\ pc' = [pc EXCEPT ![p] = "auto_link_get"]
                /\ ret' = NoRet
                /\ UNCHANGED loc
           ELSE /\ AutoContinue(p, OnItemError(loc[p]))
                /\ UNCHANGED pops
  /\ UNCHANGED <<docs, history, clock, nextId>>

\* The loop's call: (await popRef.get()).data()?.videoPath.
autoProcessUnlinkedPOPs_linkGet(p) ==
  /\ pc[p] = "auto_link_get"
  /\ LET popData == pops[<<loc[p].companyId, loc[p].videoId>>]
     IN  loc' = [loc EXCEPT ![p].videoPath =
                   IF popData.exists THEN {popData.videoPath} ELSE {}]
  /\ pc' = [pc EXCEPT ![p] = "auto_link_doc"]
  /\ ret' = NoRet
  /\ UNCHANGED <<docs, history, clock, nextId, pops>>

\* The loop's call: docRef.update({videoId, videoPath}) and its return,
\* then processed++.
autoProcessUnlinkedPOPs_linkDoc(p) ==
  /\ pc[p] = "auto_link_doc"
  /\ LET docId == loc[p].document.docId
     IN  IF loc[p].videoPath = {} \/ ~docs[docId].exists
           THEN /\ AutoContinue(p, OnItemError(loc[p]))
                /\ UNCHANGED docs
           ELSE /\ docs' = [docs EXCEPT ![docId] =
                       DocMerge(@, DocumentLink(loc[p].videoId,
                                                ValueOf(loc[p].videoPath)))]
                /\ AutoContinue(p, OnItemDone(loc[p]))
  /\ UNCHANGED <<history, clock, nextId, pops>>

\* cleanupObsoleteDocuments up to its first commit: the query, and the loop
\* over snapshot.docs.  A dry run counts every document as removed and
\* returns; an empty snapshot returns at once.
cleanupObsoleteDocuments_query(p, idSeq, daysOld, dryRun) ==
  /\ pc[p] = "idle"
  /\ LET snapshot == ObsoleteSnapshot(docs, idSeq, CutoffDate(clock, daysOld))
     IN  IF Len(snapshot) = 0
           THEN /\ ret' = CleanupOk(p, daysOld, dryRun, 0, 0)
                /\ UNCHANGED <<pc, loc>>
           ELSE IF dryRun
             THEN /\ ret' = CleanupOk(p, daysOld, dryRun, Len(snapshot), 0)
                  /\ UNCHANGED <<pc, loc>>
             ELSE /\ loc' = [loc EXCEPT ![p] = [daysOld  |-> daysOld,
                                                snapshot |-> snapshot]]
                  /\ pc' = [pc EXCEPT ![p] = "cleanup_commit"]
                  /\ ret' = NoRet
  /\ UNCHANGED <<docs, history, clock, nextId, pops>>

\* cleanupObsoleteDocuments: batch.commit() (inside the loop once BatchLimit
\* deletes are in the batch, after the loop otherwise), the rest of the loop
\* and the return.
cleanupObsoleteDocuments_commit(p) ==
  /\ pc[p] = "cleanup_commit"
  /\ LET snapshot == loc[p].snapshot
         batch    == BatchDeletes(snapshot)
         deleted  == {batch[i] : i \in DOMAIN batch}
     IN  /\ docs' = [d \in DOMAIN docs |->
                       IF d \in deleted THEN Absent ELSE docs[d]]
         /\ ret' = CleanupOk(p, loc[p].daysOld, FALSE, Len(batch),
                             Len(snapshot) - Len(batch))
  /\ pc' = [pc EXCEPT ![p] = "idle"]
  /\ loc' = [loc EXCEPT ![p] = NoLocals]
  /\ UNCHANGED <<history, clock, nextId, pops>>

\* cleanupOrphanedVideoPOPs with the locals l at the top of its loop over
\* the companies: the next company, or after the last one the return.
OrphanContinue(p, l) ==
  IF l.companies = << >>
    THEN /\ ret' = OrphanOk(p, l.dryRun, l.totalOrphaned, l.totalRemoved)
         /\ pc' = [pc EXCEPT ![p] = "idle"]
         /\ loc' = [loc EXCEPT ![p] = NoLocals]
    ELSE /\ ret' = NoRet
         /\ pc' = [pc EXCEPT ![p] = "orphans_pops"]
         /\ loc' = [loc EXCEPT ![p] = l]

\* cleanupOrphanedVideoPOPs: the query for the companies.  The locals are
\* the companies still to visit (the first is the one being visited), the
\* ids of its popsSnapshot, the orphaned records still to delete, and the
\* two totals.
cleanupOrphanedVideoPOPs_companies(p, dryRun) ==
  /\ pc[p] = "idle"
  /\ OrphanContinue(p, [dryRun |-> dryRun, companies |-> CompanyIdSeq,
                        popIds |-> << >>, orphaned |-> << >>,
                        totalOrphaned |-> 0, totalRemoved |-> 0])
  /\ UNCHANGED <<docs, history, clock, nextId, pops>>

\* cleanupOrphanedVideoPOPs: the company's pops; a company without records
\* is skipped.
cleanupOrphanedVideoPOPs_pops(p) ==
  /\ pc[p] = "orphans_pops"
  /\ LET l      == loc[p]
         popIds == SelectSeq(VideoIdSeq, LAMBDA v :
                               pops[<<Head(l.companies), v>>].exists)
     IN  IF popIds = << >>
           THEN OrphanContinue(p, [l EXCEPT !.companies = Tail(@)])
           ELSE /\ loc' = [loc EXCEPT ![p].popIds = popIds]
                /\ pc' = [pc EXCEPT ![p] = "orphans_docs"]
                /\ ret' = NoRet
  /\ UNCHANGED <<docs, history, clock, nextId, pops>>

\* cleanupOrphanedVideoPOPs: the company's POP documents, and the records
\* no document names; a dry run only counts them.
cleanupOrphanedVideoPOPs_docs(p) ==
  /\ pc[p] = "orphans_docs"
  /\ LET l        == loc[p]
         linked   == DocumentVideoIds(docs, Head(l.companies))
         orphaned == SelectSeq(l.popIds, LAMBDA v : v \notin linked)
         counted  == [l EXCEPT !.totalOrphaned = @ + Len(orphaned),
                               !.popIds = << >>]
     IN  IF orphaned = << >> \/ l.dryRun
           THEN OrphanContinue(p, [counted EXCEPT !.companies = Tail(@)])
           ELSE /\ loc' = [loc EXCEPT ![p] =
                             [counted EXCEPT !.orphaned = orphaned]]
                /\ pc' = [pc EXCEPT ![p] = "orphans_delete"]
                /\ ret' = NoRet
  /\ UNCHANGED <<docs, history, clock, nextId, pops>>

\* cleanupOrphanedVideoPOPs: popDoc.ref.delete() of one orphaned record.
cleanupOrphanedVideoPOPs_delete(p) ==
  /\ pc[p] = "orphans_delete"
  /\ LET l       == loc[p]
         removed == [l EXCEPT !.totalRemoved = @ + 1, !.orphaned = Tail(@)]
     IN  /\ pops' = [pops EXCEPT ![<<Head(l.companies), Head(l.orphaned)>>] =
                       AbsentPop]
         /\ IF removed.orphaned = << >>
              THEN OrphanContinue(p, [removed EXCEPT !.companies = Tail(@)])
              ELSE /\ loc' = [loc EXCEPT ![p] = removed]
                   /\ ret' = NoRet
                   /\ UNCHANGED pc
  /\ UNCHANGED <<docs, history, clock, nextId>>

\* --------------------------------------------------------- specification
Next ==
  \/ Tick
  \/ \E p \in Procs, input \in CreateInputs : createDocument(p, input)
  \/ \E p \in Procs, d \in DocIds, by \in Approvers, m \in Motivos :
        approveDocument_get(p, d, by, m)
  \/ \E p \in Procs : approveDocument_history(p)
  \/ \E p \in Procs : approveDocument_update(p)
  \/ \E p \in Procs, d \in DocIds, m \in Motivos : obsoleteDocument_get(p, d, m)
  \/ \E p \in Procs : obsoleteDocument_history(p)
  \/ \E p \in Procs : obsoleteDocument_update(p)
  \/ \E d \in DocIds : submitForReview(d)
  \/ \E p \in Procs, orgId \in Orgs, status \in StatusFilters :
        getDocumentsByOrg(p, orgId, status)
  \/ \E p \in Procs, d \in DocIds : getDocumentHistory(p, d)
  \/ \E p \in Procs : evaluateRevisionNeed_time(p)
  \/ \E p \in Procs : evaluateRevisionNeed_score(p)
  \/ \E p \in Procs : evaluateRevisionNeed_nc(p)
  \/ \E p \in Procs : evaluateRevisionNeed_margin(p)
  \/ \E p \in Procs : evaluateRevisionNeed_status(p)
  \/ \E p \in Procs : evaluateRevisionNeed_return(p)
  \/ \E p \in Procs, d \in DocIds, outcome \in Outcomes :
        analyzeDocument_get(p, d, outcome)
  \/ \E p \in Procs, outcome \in Outcomes : analyzeDocument_video(p, outcome)
  \/ \E p \in Procs, orgId \in Orgs : analyzeOrganization_query(p, orgId)
  \/ \E p \in Procs, outcome \in Outcomes : analyzeOrganization_doc(p, outcome)
  \/ \E p \in Procs, outcome \in Outcomes :
        analyzeOrganization_video(p, outcome)
  \/ \E key \in PopKeys, popData \in VideoPopDatas :
        VideoProcessor(key[1], key[2], "completed", {popData})
  \/ \E key \in PopKeys : VideoProcessor(key[1], key[2], "failed", {})
  \/ \E p \in Procs, key \in PopKeys, criadoPor \in {"SYSTEM", "u"} :
        createDocumentFromVideoPOP_get(p, key[1], key[2], criadoPor)
  \/ \E p \in Procs : createDocumentFromVideoPOP_create(p)
  \/ \E p \in Procs : createDocumentFromVideoPOP_linkPop(p)
  \/ \E p \in Procs : createDocumentFromVideoPOP_linkGet(p)
  \/ \E p \in Procs : createDocumentFromVideoPOP_linkDoc(p)
  \/ \E p \in Procs, companyId \in Orgs : findUnlinkedVideoPOPs(p, companyId)
  \/ \E p \in Procs, companyId \in Orgs :
        autoProcessUnlinkedPOPs_find(p, companyId)
  \/ \E p \in Procs : autoProcessUnlinkedPOPs_get(p)
  \/ \E p \in Procs : autoProcessUnlinkedPOPs_create(p)
  \/ \E p \in Procs : autoProcessUnlinkedPOPs_linkPop(p)
  \/ \E p \in Procs : autoProcessUnlinkedPOPs_linkGet(p)
  \/ \E p \in Procs : autoProcessUnlinkedPOPs_linkDoc(p)
  \/ \E p \in Procs, daysOld \in DaysOlds, dryRun \in BOOLEAN :
        cleanupObsoleteDocuments_query(p, DocIdSeq, daysOld, dryRun)
  \/ \E p \in Procs : cleanupObsoleteDocuments_commit(p)
  \/ \E p \in Procs, dryRun \in BOOLEAN :
        cleanupOrphanedVideoPOPs_companies(p, dryRun)
  \/ \E p \in Procs : cleanupOrphanedVideoPOPs_pops(p)
  \/ \E p \in Procs : cleanupOrphanedVideoPOPs_docs(p)
  \/ \E p \in Procs : cleanupOrphanedVideoPOPs_delete(p)

Spec == Init /\ [][Next]_vars

\* The scenarios checked are restrictions of Next: every behaviour of
\* SpecSeq and of SpecConc is a behaviour of Spec.  Calls address the
\* document with the first id; a second document may exist beside it.
Targets == {DocIdSeq[1]}

\* One caller whose calls do not overlap: a call, a status write or a clock
\* tick starts only when no call is in progress.
NextSeq ==
  \/ AllIdle /\ Tick
  \/ \E input \in CreateInputs : AllIdle /\ createDocument("p1", input)
  \/ \E d \in Targets, by \in Approvers, m \in Motivos :
        AllIdle /\ approveDocument_get("p1", d, by, m)
  \/ approveDocument_history("p1")
  \/ approveDocument_update("p1")
  \/ \E d \in Targets, m \in Motivos : AllIdle /\ obsoleteDocument_get("p1", d, m)
  \/ obsoleteDocument_history("p1")
  \/ obsoleteDocument_update("p1")
  \/ \E d \in Targets : AllIdle /\ submitForReview(d)

SpecSeq == Init /\ [][NextSeq]_vars

\* Overlapping calls of the callers on one document.
NextConc ==
  \/ Tick
  \/ \E p \in Procs, input \in CreateInputs :
        nextId = 1 /\ createDocument(p, input)
  \/ \E p \in Procs, d \in Targets, by \in Approvers, m \in {Omitted} :
        approveDocument_get(p, d, by, m)
  \/ \E p \in Procs : approveDocument_history(p)
  \/ \E p \in Procs : approveDocument_update(p)
  \/ \E p \in Procs, d \in Targets, m \in {Omitted} :
        obsoleteDocument_get(p, d, m)
  \/ \E p \in Procs : obsoleteDocument_history(p)
  \/ \E p \in Procs : obsoleteDocument_update(p)
  \/ \E d \in Targets : submitForReview(d)

SpecConc == Init /\ [][NextConc]_vars

\* The one caller of NextSeq also reading: queries between its calls.
NextRead ==
  \/ NextSeq
  \/ \E orgId \in Orgs, status \in StatusFilters :
        AllIdle /\ getDocumentsByOrg("p1", orgId, status)
  \/ \E d \in DocIds : AllIdle /\ getDocumentHistory("p1", d)

SpecRead == Init /\ [][NextRead]_vars

\* evaluateRevisionNeed on its own: the arguments a call can be given.
EvalDays     == {0, 89, 90, 179, 180, 181}
EvalScores   == {{}, {0}, {69}, {70}, {100}}
EvalCounts   == {{}, {0}, {3}, {4}}
EvalImpactos == {"alto", "medio", "baixo"}

\* A stored document with the two fields evaluateRevisionNeed reads.
EvalDocument(status, impacto) ==
  [NewDocument(DocIdSeq[1], CHOOSE input \in CreateInputs : TRUE, 0)
     EXCEPT !.status = status, !.axiomaMetrics.impactoMargem = impacto]

InitEval ==
  /\ docs = [d \in DocIds |-> Absent]
  /\ history = [d \in DocIds |-> << >>]
  /\ clock = 0
  /\ nextId = 1
  /\ pc = [p \in Procs |-> IF p = "p1" THEN "eval_time" ELSE "idle"]
  /\ \E status \in DocumentStatus, impacto \in EvalImpactos,
        days \in EvalDays, score \in EvalScores, nc \in EvalCounts :
        loc = [p \in Procs |->
                 IF p = "p1"
                   THEN EvalLocals(EvalDocument(status, impacto), days,
                                   score, nc)
                   ELSE NoLocals]
  /\ ret = NoRet
  /\ pops = [k \in PopKeys |-> AbsentPop]

NextEval ==
  \/ evaluateRevisionNeed_time("p1")
  \/ evaluateRevisionNeed_score("p1")
  \/ evaluateRevisionNeed_nc("p1")
  \/ evaluateRevisionNeed_margin("p1")
  \/ evaluateRevisionNeed_status("p1")
  \/ evaluateRevisionNeed_return("p1")

SpecEval == InitEval /\ [][NextEval]_vars

\* The analysis service reading a store the other services have filled.
\* Times are in clock units, DayTicks to the day: the stored documents were
\* last revised 0, 90 and 180 days before the analysis.
AnalysisRevisions == {400, 220, 40}

\* A document as createDocument and its later calls leave it: a draft, a
\* draft sent to review, or a document approved twice (now active at 2.0,
\* its version 1.0 archived); linked to a video when videoId is not "".
AnalysisDraft(d, orgId, impacto, t) ==
  NewDocument(d, [orgId |-> orgId, tipo |-> "POP", titulo |-> "T",
                  contentHash |-> "h", criadoPor |-> "u",
                  custoManutencao |-> {850}, impactoMargem |-> {impacto}], t)

AnalysisDocument(d, orgId, status, impacto, rev, videoId) ==
  LET doc == IF status = "ativo"
               THEN ApprovedDoc(ApprovedDoc(AnalysisDraft(d, orgId, impacto, 0),
                                            <<1, 0>>, 0), <<2, 0>>, rev)
               ELSE [AnalysisDraft(d, orgId, impacto, rev)
                       EXCEPT !.status = status]
  IN  IF videoId = "" THEN doc
      ELSE DocMerge(doc, [videoId |-> videoId,
                          videoPath |-> <<orgId, videoId>>])

\* The history the calls above leave under the document.
AnalysisHistory(doc) ==
  IF doc.exists /\ doc.status = "ativo"
    THEN LET first == ApprovedDoc(
                        AnalysisDraft(doc.docId, doc.orgId,
                                      doc.axiomaMetrics.impactoMargem, 0),
                        <<1, 0>>, 0)
         IN  ApproveHistoryKey(first) :>
               ApproveHistoryEntry(first, doc.metadata.ultimaRevisao,
                                   "mgr", Omitted)
    ELSE << >>

AnalysisFirst ==
  {AnalysisDocument(DocIdSeq[1], "orgA", status, impacto, rev, videoId) :
     status \in {"rascunho", "revisao", "ativo"}, impacto \in {"alto", "baixo"},
     rev \in AnalysisRevisions, videoId \in {"", VideoIdSeq[1]}}

AnalysisSecond ==
  {Absent} \cup
  {AnalysisDocument(DocIdSeq[2], orgId, status, impacto, rev, "") :
     orgId \in Orgs, status \in {"rascunho", "revisao", "ativo"},
     impacto \in {"alto", "baixo"}, rev \in AnalysisRevisions}

\* The extraction record of the first document's video, if it has one.
AnalysisPops ==
  {AbsentPop,
   PopRecord("orgA", VideoIdSeq[1], "failed", {}),
   PopRecord("orgA", VideoIdSeq[1], "completed",
             {PopData({"T"}, {<<"e">>}, {<< >>}, {60})}),
   PopRecord("orgA", VideoIdSeq[1], "completed",
             {PopData({"T"}, {<<"e">>}, {<<"n", "n", "n", "n">>}, {})}),
   PopRecord("orgA", VideoIdSeq[1], "completed",
             {PopData({}, {}, {}, {100})})}

InitAnalysis ==
  /\ \E first \in AnalysisFirst, second \in AnalysisSecond :
       /\ docs = [d \in DocIds |-> IF d = DocIdSeq[1] THEN first ELSE second]
       /\ history = [d \in DocIds |->
            AnalysisHistory(IF d = DocIdSeq[1] THEN first ELSE second)]
       /\ \E pop \in IF HasVideo(first) THEN AnalysisPops ELSE {AbsentPop} :
            pops = [k \in PopKeys |->
                      IF k = <<"orgA", VideoIdSeq[1]>> THEN pop ELSE AbsentPop]
  /\ clock = 400
  /\ nextId = Len(DocIdSeq) + 1
  /\ pc = [p \in Procs |-> "idle"]
  /\ loc = [p \in Procs |-> NoLocals]
  /\ ret = NoRet

NextAnalysis ==
  \/ \E orgId \in Orgs, status \in StatusFilters :
        AllIdle /\ getDocumentsByOrg("p1", orgId, status)
  \/ \E d \in DocIds : AllIdle /\ getDocumentHistory("p1", d)
  \/ \E d \in DocIds, outcome \in Outcomes :
        AllIdle /\ analyzeDocument_get("p1", d, outcome)
  \/ \E outcome \in Outcomes : analyzeDocument_video("p1", outcome)
  \/ \E orgId \in Orgs : AllIdle /\ analyzeOrganization_query("p1", orgId)
  \/ \E outcome \in Outcomes : analyzeOrganization_doc("p1", outcome)
  \/ \E outcome \in Outcomes : analyzeOrganization_video("p1", outcome)

SpecAnalysis == InitAnalysis /\ [][NextAnalysis]_vars

\* The extraction pipeline for one uploaded video of one tenant: the
\* extraction stores its result, and one caller creates a document from it.
NextVideo ==
  \/ \E popData \in VideoPopDatas :
        AllIdle /\ VideoProcessor("orgA", VideoIdSeq[1], "completed", {popData})
  \/ AllIdle /\ VideoProcessor("orgA", VideoIdSeq[1], "failed", {})
  \/ \E videoId \in VideoIds :
        /\ AllIdle
        /\ nextId = 1
        /\ createDocumentFromVideoPOP_get("p1", "orgA", videoId, "SYSTEM")
  \/ createDocumentFromVideoPOP_create("p1")
  \/ createDocumentFromVideoPOP_linkPop("p1")
  \/ createDocumentFromVideoPOP_linkGet("p1")
  \/ createDocumentFromVideoPOP_linkDoc("p1")
  \/ AllIdle /\ findUnlinkedVideoPOPs("p1", "orgA")

SpecVideo == Init /\ [][NextVideo]_vars

\* The batch over extraction records already stored.  A record is absent,
\* or completed as VideoProcessor wrote it, or completed with its
\* linkedDocumentId stored as null by a writer outside this repository (the
\* only records the batch's query matches).
AutoPopData == PopData({"T"}, {<<"e">>}, {<< >>}, {90})

AutoPops(videoId) ==
  {AbsentPop,
   PopRecord("orgA", videoId, "completed", {AutoPopData}),
   [PopRecord("orgA", videoId, "completed", {AutoPopData})
      EXCEPT !.linkedDocumentId = {Null}]}

InitAuto ==
  /\ docs = [d \in DocIds |-> Absent]
  /\ history = [d \in DocIds |-> << >>]
  /\ clock = 0
  /\ nextId = 1
  /\ pc = [p \in Procs |-> "idle"]
  /\ loc = [p \in Procs |-> NoLocals]
  /\ ret = NoRet
  /\ \E first \in AutoPops(VideoIdSeq[1]), second \in AutoPops(VideoIdSeq[2]) :
       pops = [k \in PopKeys |->
                 IF k = <<"orgA", VideoIdSeq[1]>> THEN first
                 ELSE IF k = <<"orgA", VideoIdSeq[2]>> THEN second
                 ELSE AbsentPop]

\* One run of the batch; a video uploaded again whose extraction fails
\* replaces its record before the run or between two of its items.
NextAuto ==
  \/ AllIdle /\ nextId = 1 /\ autoProcessUnlinkedPOPs_find("p1", "orgA")
  \/ autoProcessUnlinkedPOPs_get("p1")
  \/ autoProcessUnlinkedPOPs_create("p1")
  \/ autoProcessUnlinkedPOPs_linkPop("p1")
  \/ autoProcessUnlinkedPOPs_linkGet("p1")
  \/ autoProcessUnlinkedPOPs_linkDoc("p1")
  \/ \E videoId \in VideoIds :
        /\ pc["p1"] \in {"idle", "auto_get"}
        /\ VideoProcessor("orgA", videoId, "failed", {})

SpecAuto == InitAuto /\ [][NextAuto]_vars

\* The cleanup CLI run on a filled store.  The documents are numbered in id
\* order; the first `count` of them were retired 400 days ago, and the next
\* one is absent, or an old draft, in-review or active document, or a
\* document retired 365 days or one day ago.
CleanupIdSeq == [i \in 1..(BatchLimit + 2) |-> i]

CleanupDraft(d) == NewDocument(d, CHOOSE input \in CreateInputs : TRUE, 0)

CleanupOthers(d) ==
  {Absent,
   CleanupDraft(d),
   [CleanupDraft(d) EXCEPT !.status = "revisao"],
   ApprovedDoc(CleanupDraft(d), <<1, 0>>, 0),
   ObsoletedDoc(CleanupDraft(d), 70),
   ObsoletedDoc(CleanupDraft(d), 798)}

\* The history obsoleteDocument leaves under a retired draft.
CleanupHistory(doc) ==
  IF doc.exists /\ doc.status = "obsoleto"
    THEN ObsoleteHistoryKey(doc) :>
           ObsoleteHistoryEntry(CleanupDraft(doc.docId),
                                doc.metadata.ultimaRevisao, Omitted)
    ELSE << >>

InitCleanup ==
  /\ \E count \in {0, 1, 2, BatchLimit - 1, BatchLimit, BatchLimit + 1} :
     \E other \in CleanupOthers(count + 1) :
       /\ docs = [d \in 1..Len(CleanupIdSeq) |->
                    IF d <= count THEN ObsoletedDoc(CleanupDraft(d), 0)
                    ELSE IF d = count + 1 THEN other
                    ELSE Absent]
       /\ history = [d \in 1..Len(CleanupIdSeq) |->
                       IF d <= count
                         THEN CleanupHistory(ObsoletedDoc(CleanupDraft(d), 0))
                       ELSE IF d = count + 1 THEN CleanupHistory(other)
                       ELSE << >>]
  /\ clock = 800
  /\ nextId = Len(DocIdSeq) + 1
  /\ pc = [p \in Procs |-> "idle"]
  /\ loc = [p \in Procs |-> NoLocals]
  /\ ret = NoRet
  /\ pops = [k \in PopKeys |-> AbsentPop]

NextCleanup ==
  \/ \E daysOld \in DaysOlds, dryRun \in BOOLEAN :
        AllIdle /\ cleanupObsoleteDocuments_query("p1", CleanupIdSeq,
                                                  daysOld, dryRun)
  \/ cleanupObsoleteDocuments_commit("p1")

SpecCleanup == InitCleanup /\ [][NextCleanup]_vars

\* Repeated and overlapping createDocumentFromVideoPOP calls of two callers
\* on the records of one tenant, each record extracted once.
NextRelink ==
  \/ \E videoId \in VideoIds :
        /\ AllIdle
        /\ ~pops[<<"orgA", videoId>>].exists
        /\ VideoProcessor("orgA", videoId, "completed", {AutoPopData})
  \/ \E p \in Procs, videoId \in VideoIds :
        createDocumentFromVideoPOP_get(p, "orgA", videoId, "SYSTEM")
  \/ \E p \in Procs : createDocumentFromVideoPOP_create(p)
  \/ \E p \in Procs : createDocumentFromVideoPOP_linkPop(p)
  \/ \E p \in Procs : createDocumentFromVideoPOP_linkGet(p)
  \/ \E p \in Procs : createDocumentFromVideoPOP_linkDoc(p)

SpecRelink == Init /\ [][NextRelink]_vars

\* One createDocumentFromVideoPOP call while the cleanup CLI removes orphaned
\* records.
NextUnlink ==
  \/ \E videoId \in VideoIds :
        /\ AllIdle
        /\ ~pops[<<"orgA", videoId>>].exists
        /\ VideoProcessor("orgA", videoId, "completed", {AutoPopData})
  \/ \E videoId \in VideoIds :
        /\ nextId = 1
        /\ createDocumentFromVideoPOP_get("p1", "orgA", videoId, "SYSTEM")
  \/ createDocumentFromVideoPOP_create("p1")
  \/ createDocumentFromVideoPOP_linkPop("p1")
  \/ createDocumentFromVideoPOP_linkGet("p1")
  \/ createDocumentFromVideoPOP_linkDoc("p1")
  \/ \E dryRun \in BOOLEAN : cleanupOrphanedVideoPOPs_companies("p2", dryRun)
  \/ cleanupOrphanedVideoPOPs_pops("p2")
  \/ cleanupOrphanedVideoPOPs_docs("p2")
  \/ cleanupOrphanedVideoPOPs_delete("p2")

SpecUnlink == Init /\ [][NextUnlink]_vars

\* ------------------------------------------------------- steps of a call

\* The step in which caller p invokes approveDocument(d, ...).
ApproveCallStep(p, d) ==
  /\ pc[p] = "idle"
  /\ \/ pc'[p] \in {"approve_history", "approve_update"} /\ loc'[p].docId = d
     \/ pc'[p] = "idle" /\ ret'.proc = p /\ ret'.op = "approveDocument"
                        /\ ret'.docId = d

\* The step in which caller p's approveDocument writes the document and returns.
ApproveReturnStep(p) == pc[p] = "approve_update" /\ pc'[p] = "idle"

\* The step in which caller p's approveDocument writes its history entry.
ApproveHistoryStep(p) == pc[p] = "approve_history" /\ pc'[p] = "approve_update"

\* The step in which caller p invokes obsoleteDocument(d, ...).
ObsoleteCallStep(p, d) ==
  /\ pc[p] = "idle"
  /\ \/ pc'[p] = "obsolete_history" /\ loc'[p].docId = d
     \/ pc'[p] = "idle" /\ ret'.proc = p /\ ret'.op = "obsoleteDocument"
                        /\ ret'.docId = d

ObsoleteHistoryStep(p) == pc[p] = "obsolete_history" /\ pc'[p] = "obsolete_update"

ObsoleteReturnStep(p) == pc[p] = "obsolete_update" /\ pc'[p] = "idle"

NonObsolete == {"rascunho", "revisao", "ativo"}

\* ---------------------------------------------------------------- claims

\* C1: approveDocument on an existing document that is not obsolete goes
\* through (it throws nothing), and it stores and returns the document with
\* status 'ativo' and version (major+1).0, major being the major component
\* of the version stored before the call, whatever the minor component and
\* whether the status was rascunho, revisao or ativo.
C1_ApproveStep(p) ==
  /\ \A d \in DocIds :
       ApproveCallStep(p, d) /\ docs[d].exists /\ docs[d].status \in NonObsolete
         => pc'[p] # "idle"
  /\ ApproveReturnStep(p) =>
       LET d == loc[p].docId
       IN  /\ docs[d].exists /\ docs[d].status \in NonObsolete
           /\ docs'[d].status = "ativo"
           /\ docs'[d].versao = <<docs[d].versao[1] + 1, 0>>
           /\ ret' = Ok(p, "approveDocument", d, docs'[d])

C2_RejectStep(p, d) ==
  ApproveCallStep(p, d) =>
    /\ ~docs[d].exists =>
         /\ ret' = Err(p, "approveDocument", d, "NotFound")
         /\ pc'[p] = "idle" /\ docs' = docs /\ history' = history
    /\ docs[d].exists /\ docs[d].status = "obsoleto" =>
         /\ ret' = Err(p, "approveDocument", d, "InvalidTransition")
         /\ pc'[p] = "idle" /\ docs' = docs /\ history' = history

C2_ApproveObsoleteRejected ==
  [][\A p \in Procs, d \in DocIds : C2_RejectStep(p, d)]_vars

\* An approval of an obsolete document that had been active was rejected.
C2_Witness ==
  /\ ret.op = "approveDocument" /\ ret.kind = "InvalidTransition"
  /\ docs[ret.docId].status = "obsoleto"
  /\ docs[ret.docId].versao = <<1, 0>>

\* C3: a successful approveDocument writes exactly one history entry when the
\* document was active before the call and none when it was rascunho or
\* revisao.  The entry is new, its key and its versao field are the version
\* before the call, and its documentSnapshot is the whole document as stored
\* before the call.
C3_HistoryStep(p) ==
  /\ \A d \in DocIds :
       ApproveCallStep(p, d) =>
         /\ history' = history
         /\ pc'[p] = "approve_history" => docs[d].status = "ativo"
         /\ pc'[p] = "approve_update" => docs[d].status \in {"rascunho", "revisao"}
  /\ ApproveHistoryStep(p) =>
       LET d   == loc[p].docId
           key == [prefix |-> "", versao |-> docs[d].versao]
       IN  /\ key \notin DOMAIN history[d]
           /\ DOMAIN history'[d] = DOMAIN history[d] \cup {key}
           /\ history'[d][key].versao = docs[d].versao
           /\ history'[d][key].documentSnapshot = docs[d]
           /\ docs[d].status = "ativo"
           /\ \A k \in DOMAIN history[d] : history'[d][k] = history[d][k]
           /\ \A e \in DocIds \ {d} : history'[e] = history[e]
           /\ docs' = docs
  /\ ApproveReturnStep(p) => history' = history

C3_ApproveArchivesActive == [][\A p \in Procs : C3_HistoryStep(p)]_vars

\* An approval has archived the active 1.0 with a revision date older than
\* the one it then wrote.
C3_Witness ==
  /\ ret.op = "approveDocument" /\ ret.kind = "ok"
  /\ LET key == [prefix |-> "", versao |-> <<1, 0>>]
     IN  /\ key \in DOMAIN history[ret.docId]
         /\ history[ret.docId][key].documentSnapshot.metadata.ultimaRevisao
              < ret.doc.metadata.ultimaRevisao

\* C4: every obsoleteDocument call on an existing document, whatever its
\* status, adds exactly one new history entry, under the key
\* "obsoleto-{version}" (which differs from the approval key of the same
\* version), sets the status to 'obsoleto' and leaves the version unchanged.
C4_ObsoleteStep(p) ==
  /\ \A d \in DocIds :
       ObsoleteCallStep(p, d) /\ docs[d].exists => pc'[p] = "obsolete_history"
  /\ ObsoleteHistoryStep(p) =>
       LET d   == loc[p].docId
           key == [prefix |-> "obsoleto-", versao |-> docs[d].versao]
       IN  /\ key \notin DOMAIN history[d]
           /\ DOMAIN history'[d] = DOMAIN history[d] \cup {key}
           /\ key # [prefix |-> "", versao |-> docs[d].versao]
           /\ history'[d][key].documentSnapshot = docs[d]
  /\ ObsoleteReturnStep(p) =>
       LET d == loc[p].docId
       IN  /\ docs'[d].status = "obsoleto"
           /\ docs'[d].versao = docs[d].versao
           /\ history' = history

C4_ObsoleteAddsOneEntry == [][\A p \in Procs : C4_ObsoleteStep(p)]_vars

\* C5: the major component of a document's stored version never decreases
\* from one state to the next, also when approveDocument and
\* obsoleteDocument calls on the document overlap.
C5_VersionStep(d) ==
  docs[d].exists /\ docs'[d].exists => docs'[d].versao[1] >= docs[d].versao[1]

C5_VersionNeverDecreases == [][\A d \in DocIds : C5_VersionStep(d)]_vars

\* C6: approveDocument and obsoleteDocument are atomic read-modify-writes, so
\* overlapping calls leave what some serial order of them leaves: every
\* approval that succeeds raises the stored major version by one (two
\* approvals of n.0 leave (n+2).0), and the history entry an approval writes
\* replaces no entry written before it.
C6_AtomicStep(p) ==
  /\ ApproveReturnStep(p) /\ ret'.kind = "ok" =>
       docs'[loc[p].docId].versao[1] = docs[loc[p].docId].versao[1] + 1
  /\ ApproveHistoryStep(p) =>
       ApproveHistoryKey(loc[p].currentDoc) \notin DOMAIN history[loc[p].docId]

C6_CallsAreAtomic == [][\A p \in Procs : C6_AtomicStep(p)]_vars

\* C7: the history keeps every superseded active version.  A version k.0 with
\* k >= 1 is written only by an approval, with status 'ativo'; it is
\* superseded once the stored major version is above k or the document is
\* obsolete at k.0.  For each such version the history holds an entry whose
\* snapshot has that version and status 'ativo'.
SupersededActive(d) ==
  IF ~docs[d].exists THEN {}
  ELSE { <<k, 0>> : k \in { j \in 1..docs[d].versao[1] :
                              \/ j < docs[d].versao[1]
                              \/ docs[d].status = "obsoleto" } }

C7_HistoryKeepsActiveVersions ==
  \A d \in DocIds : \A v \in SupersededActive(d) :
    \E k \in DOMAIN history[d] :
      /\ history[d][k].documentSnapshot.versao = v
      /\ history[d][k].documentSnapshot.status = "ativo"

\* C8: a history entry is immutable: once a key exists in a document's
\* history, no later step removes it or changes what is stored under it.
C8_EntryStep(d) ==
  \A k \in DOMAIN history[d] :
    k \in DOMAIN history'[d] /\ history'[d][k] = history[d][k]

C8_HistoryImmutable == [][\A d \in DocIds : C8_EntryStep(d)]_vars

\* C9: createDocument stores and returns a new document under a fresh id,
\* with status 'rascunho', version 0.1, the caller's orgId, tipo, titulo,
\* contentHash and criadoPor, dataCriacao = ultimaRevisao = now,
\* custoManutencao 0 and impactoMargem 'baixo' when the caller leaves them
\* out; the new document has no history and no other document changes.
C9_CreateStep ==
  ret'.op = "createDocument" =>
    LET doc == ret'.doc
        id  == ret'.docId
    IN  /\ ret'.kind = "ok"
        /\ doc.docId = id
        /\ ~docs[id].exists
        /\ docs'[id] = doc
        /\ doc.status = "rascunho"
        /\ doc.versao = <<0, 1>>
        /\ doc.metadata.dataCriacao = clock
        /\ doc.metadata.ultimaRevisao = clock
        /\ \E input \in CreateInputs :
             /\ doc.orgId = input.orgId
             /\ doc.tipo = input.tipo
             /\ doc.titulo = input.titulo
             /\ doc.contentHash = input.contentHash
             /\ doc.metadata.criadoPor = input.criadoPor
             /\ doc.axiomaMetrics.custoManutencao \in input.custoManutencao \cup {0}
             /\ input.custoManutencao = {} => doc.axiomaMetrics.custoManutencao = 0
             /\ IF input.impactoMargem = {}
                  THEN doc.axiomaMetrics.impactoMargem = "baixo"
                  ELSE doc.axiomaMetrics.impactoMargem \in input.impactoMargem
        /\ history'[id] = << >>
        /\ history' = history
        /\ \A e \in DocIds \ {id} : docs'[e] = docs[e]

C9_CreateMakesDraft == [][C9_CreateStep]_vars

\* A second document was created with the optional inputs left out, beside a
\* first one that has a history.
C9_Witness ==
  /\ ret.op = "createDocument" /\ ret.docId = "d2"
  /\ ret.doc.axiomaMetrics.impactoMargem = "baixo"
  /\ ret.doc.metadata.dataCriacao > 0
  /\ docs["d1"].exists /\ history["d1"] # << >>

\* C10: approveDocument and obsoleteDocument change only status, versao
\* (approveDocument only) and metadata.ultimaRevisao of their document; every
\* other field of it and every other document stay as they were, so a
\* document's orgId never changes once it is created.
C10_SameButLifecycle(old, new) ==
  /\ new.exists
  /\ new.docId = old.docId
  /\ new.orgId = old.orgId
  /\ new.tipo = old.tipo
  /\ new.titulo = old.titulo
  /\ new.contentHash = old.contentHash
  /\ new.metadata.criadoPor = old.metadata.criadoPor
  /\ new.metadata.dataCriacao = old.metadata.dataCriacao
  /\ new.axiomaMetrics = old.axiomaMetrics

C10_FrameStep(p) ==
  /\ ApproveReturnStep(p) \/ ObsoleteReturnStep(p) =>
       /\ C10_SameButLifecycle(docs[loc[p].docId], docs'[loc[p].docId])
       /\ \A e \in DocIds \ {loc[p].docId} : docs'[e] = docs[e]
  /\ ObsoleteReturnStep(p) =>
       docs'[loc[p].docId].versao = docs[loc[p].docId].versao
  /\ ApproveHistoryStep(p) \/ ObsoleteHistoryStep(p) => docs' = docs
  /\ \A d \in DocIds : docs[d].exists =>
       docs'[d].exists /\ docs'[d].orgId = docs[d].orgId

C10_LifecycleFrame == [][\A p \in Procs : C10_FrameStep(p)]_vars

\* An approval and a retirement have both rewritten the first document,
\* later than its creation, while a second document exists.
C10_Witness ==
  /\ ret.op = "obsoleteDocument" /\ ret.kind = "ok" /\ ret.docId = "d1"
  /\ ret.doc.versao = <<1, 0>>
  /\ ret.doc.metadata.ultimaRevisao > ret.doc.metadata.dataCriacao
  /\ docs["d2"].exists

\* C11: getDocumentsByOrg(orgId, status?) returns exactly the stored
\* documents whose orgId is the one given and, when a status is given, whose
\* status is that status: each of them once, and no other document.
C11_QueryStep ==
  ret'.op = "getDocumentsByOrg" =>
    LET r      == ret'.doc
        wanted == {d \in DocIds :
                     /\ docs[d].exists
                     /\ docs[d].orgId = ret'.orgId
                     /\ ret'.status \in DocumentStatus =>
                          docs[d].status = ret'.status}
    IN  /\ Len(r) = Cardinality(wanted)
        /\ {r[i] : i \in 1..Len(r)} = {docs[d] : d \in wanted}

C11_QueryReturnsTenantDocuments == [][C11_QueryStep]_vars

\* A filtered query that returned one of two stored documents.
C11_Witness ==
  /\ ret.op = "getDocumentsByOrg"
  /\ ret.status # Omitted
  /\ Len(ret.doc) = 1
  /\ \A d \in DocIds : docs[d].exists
  /\ \E d \in DocIds : docs[d].orgId # ret.orgId

\* C13: getDocumentHistory(docId) returns all history entries of that
\* document and only those, by archival time descending; the entry a call
\* archives is the first one of the list a later read returns, so an entry
\* archived by a later call comes before one archived by an earlier call.
C13_ReadStep ==
  ret'.op = "getDocumentHistory" =>
    LET r  == ret'.doc
        hd == history[ret'.docId]
    IN  /\ Len(r) = Cardinality(DOMAIN hd)
        /\ {r[i] : i \in 1..Len(r)} = {hd[k] : k \in DOMAIN hd}
        /\ \A i, j \in 1..Len(r) :
             i < j => r[i].arquivadoEm >= r[j].arquivadoEm

C13_ArchiveStep ==
  \A p \in Procs :
    pc[p] \in {"approve_history", "obsolete_history"} /\ pc'[p] # pc[p] =>
      LET d == loc[p].docId
          k == IF pc[p] = "approve_history"
                 THEN ApproveHistoryKey(loc[p].currentDoc)
                 ELSE ObsoleteHistoryKey(loc[p].currentDoc)
      IN  /\ k \in DOMAIN history'[d]
          /\ Head(DocumentHistory(history', d)) = history'[d][k]

C13_HistoryNewestFirst == [][C13_ReadStep /\ C13_ArchiveStep]_vars

\* A read of a history whose two entries were archived at different times.
C13_Witness ==
  /\ ret.op = "getDocumentHistory"
  /\ Len(ret.doc) >= 2
  /\ ret.doc[1].arquivadoEm > ret.doc[2].arquivadoEm
  /\ ret.doc[1].aprovadoPor = "SYSTEM"

\* C14: within one evaluateRevisionNeed the risk level only rises from one
\* check to the next: no check, the warning-days check included, lowers a
\* level already reached, and a High stays High to the return.
C14_RiskStep ==
  \A p \in Procs :
    /\ pc[p] \in {"eval_time", "eval_score", "eval_nc", "eval_margin",
                  "eval_status", "eval_return"}
    /\ pc'[p] # pc[p]
    => LET before == loc[p].analysis.riskLevel
           after  == IF pc'[p] = "idle" THEN ret'.doc.riskLevel
                                        ELSE loc'[p].analysis.riskLevel
       IN  /\ riskOrder[after] >= riskOrder[before]
           /\ before = "alto" => after = "alto"

C14_RiskOnlyRises == [][C14_RiskStep]_vars

\* An evaluation that went through the warning-days branch ('médio') and
\* ended High.
C14_Witness ==
  /\ ret.op = "evaluateRevisionNeed"
  /\ ret.doc.riskLevel = "alto"
  /\ ret.doc.recommendations[1] = "Agendar revisão em breve"

\* C15: evaluateRevisionNeed returns risk High exactly when days >=
\* requiredDays, or a score is given and is below the minimum, or a count is
\* given and is above the maximum, or the document's margin impact is High;
\* Medium exactly when none of these holds and days >= warningDays; Low
\* otherwise.  needsRevision is true exactly when the risk is High, and the
\* document's status changes neither.
C15_ReturnStep ==
  \A p \in Procs :
    pc[p] = "eval_return" /\ pc'[p] = "idle" =>
      LET days  == loc[p].daysSinceLastRevision
          score == loc[p].scoreConformidade
          nc    == loc[p].naoConformidades
          th    == DefaultThresholds
          high  == \/ days >= th.daysUntilRevisionRequired
                   \/ \E x \in score : x < th.minConformityScore
                   \/ \E x \in nc : x > th.maxNonConformities
                   \/ loc[p].document.axiomaMetrics.impactoMargem = "alto"
      IN  /\ ret'.doc.riskLevel =
               IF high THEN "alto"
               ELSE IF days >= th.daysUntilRevisionWarning THEN "médio"
               ELSE "baixo"
          /\ ret'.doc.needsRevision = high
          /\ \A s \in DocumentStatus :
               LET other == evaluateRevisionNeed(
                              [loc[p].document EXCEPT !.status = s],
                              days, score, nc, th)
               IN  /\ other.riskLevel = ret'.doc.riskLevel
                   /\ other.needsRevision = ret'.doc.needsRevision

C15_RiskFormula == [][C15_ReturnStep]_vars

\* An evaluation on the warning threshold returned Medium without asking
\* for a revision, for an obsolete document.
C15_Witness ==
  /\ ret.op = "evaluateRevisionNeed"
  /\ ret.doc.riskLevel = "médio"
  /\ ~ret.doc.needsRevision
  /\ Len(ret.doc.reasons) = 2

\* C16: evaluateRevisionNeed returns reasons and recommendations of equal
\* length, at least one: one pair per triggered check in the order time,
\* score, non-conformities, margin impact, obsolete status; the "in
\* compliance" pair is there exactly when none of the five triggered, and
\* then it is the only pair.
C16_ReturnStep ==
  \A p \in Procs :
    pc[p] = "eval_return" /\ pc'[p] = "idle" =>
      LET days  == loc[p].daysSinceLastRevision
          th    == DefaultThresholds
          If(c, x) == IF c THEN <<x>> ELSE << >>
          time  == IF days >= th.daysUntilRevisionRequired
                     THEN <<"Revisão obrigatória devido ao tempo decorrido">>
                     ELSE If(days >= th.daysUntilRevisionWarning,
                             "Agendar revisão em breve")
          five  == time
                   \o If(\E x \in loc[p].scoreConformidade :
                           x < th.minConformityScore,
                         "Revisar procedimentos para aumentar conformidade")
                   \o If(\E x \in loc[p].naoConformidades :
                           x > th.maxNonConformities,
                         "Corrigir não-conformidades identificadas no vídeo")
                   \o If(loc[p].document.axiomaMetrics.impactoMargem = "alto",
                         "Priorizar revisão devido ao alto impacto financeiro")
                   \o If(loc[p].document.status = "obsoleto",
                         "Criar nova versão ou arquivar permanentemente")
          reasonOf ==
            [r \in {"Revisão obrigatória devido ao tempo decorrido",
                    "Agendar revisão em breve",
                    "Revisar procedimentos para aumentar conformidade",
                    "Corrigir não-conformidades identificadas no vídeo",
                    "Priorizar revisão devido ao alto impacto financeiro",
                    "Criar nova versão ou arquivar permanentemente",
                    "Manter monitoramento periódico"} |->
               CASE r = "Revisão obrigatória devido ao tempo decorrido" ->
                      "Última revisão há ${dias} dias (>= ${limite} dias)"
                 [] r = "Agendar revisão em breve" ->
                      "Última revisão há ${dias} dias (próximo do limite)"
                 [] r = "Revisar procedimentos para aumentar conformidade" ->
                      "Score de conformidade baixo: ${score}% (< ${min}%)"
                 [] r = "Corrigir não-conformidades identificadas no vídeo" ->
                      "Muitas não-conformidades: ${n} (> ${max})"
                 [] r = "Priorizar revisão devido ao alto impacto financeiro" ->
                      "Documento tem alto impacto na margem de lucro"
                 [] r = "Criar nova versão ou arquivar permanentemente" ->
                      "Documento está obsoleto"
                 [] OTHER -> "Documento em conformidade"]
          recs  == IF five = << >> THEN <<"Manter monitoramento periódico">>
                                   ELSE five
      IN  /\ ret'.doc.recommendations = recs
          /\ ret'.doc.reasons = [i \in 1..Len(recs) |-> reasonOf[recs[i]]]
          /\ Len(ret'.doc.reasons) = Len(ret'.doc.recommendations)
          /\ Len(ret'.doc.reasons) >= 1

C16_ReasonPairs == [][C16_ReturnStep]_vars

\* An evaluation in which all five checks triggered.
C16_Witness ==
  /\ ret.op = "evaluateRevisionNeed"
  /\ Len(ret.doc.reasons) = 5
  /\ ret.doc.reasons[5] = "Documento está obsoleto"

\* C12: getDocumentsByOrg, getDocumentHistory, analyzeDocument and
\* analyzeOrganization leave every stored document and every history entry
\* as they were, in each of their steps; a getDocumentsByOrg call repeated
\* with the same arguments right after the first returns the same list.
C12_ReadStep ==
  \/ ret'.op \in {"getDocumentsByOrg", "getDocumentHistory",
                  "analyzeDocument", "analyzeOrganization"}
  \/ \E p \in Procs :
       {pc[p], pc'[p]} \cap {"analyze_video", "org_doc", "org_video"} # {}

C12_RepeatStep ==
  /\ ret.op = "getDocumentsByOrg"
  /\ ret'.op = "getDocumentsByOrg"
  /\ ret'.orgId = ret.orgId
  /\ ret'.status = ret.status

C12_ReadsChangeNothing ==
  [][/\ C12_ReadStep => docs' = docs /\ history' = history
     /\ C12_RepeatStep => ret'.doc = ret.doc]_vars

\* A batch analysis has returned analyses while the store holds documents
\* and an archived version.
C12_Witness ==
  /\ ret.op = "analyzeOrganization"
  /\ Len(ret.doc) >= 1
  /\ \E d \in DocIds : DOMAIN history[d] # {}

\* C17: analyzeOrganization evaluates exactly the tenant's documents whose
\* status is Active or InReview (each once; one whose analysis failed is
\* logged instead), and returns the analyses by risk descending, analyses
\* of equal risk in the order the documents were read.
C17_ReturnStep ==
  ret'.op = "analyzeOrganization" =>
    LET r        == ret'.doc
        p        == ret'.proc
        snapshot == IF pc[p] = "idle" THEN << >> ELSE loc[p].snapshot
        position == [d \in {snapshot[i] : i \in 1..Len(snapshot)} |->
                       CHOOSE i \in 1..Len(snapshot) : snapshot[i] = d]
        ids      == {r[i].docId : i \in 1..Len(r)}
        logged   == {ret'.logged[i] : i \in 1..Len(ret'.logged)}
    IN  /\ ids \cup logged =
             {d \in DocIds : /\ docs[d].exists
                             /\ docs[d].orgId = ret'.orgId
                             /\ docs[d].status \in {"ativo", "revisao"}}
        /\ Len(r) = Cardinality(ids)
        /\ \A i \in 1..Len(r) :
             /\ r[i].status = docs[r[i].docId].status
             /\ r[i].titulo = docs[r[i].docId].titulo
        /\ \A i, j \in 1..Len(r) :
             i < j =>
               /\ riskOrder[r[i].riskLevel] >= riskOrder[r[j].riskLevel]
               /\ r[i].riskLevel = r[j].riskLevel =>
                    position[r[i].docId] < position[r[j].docId]

C17_BatchSortedByRisk == [][C17_ReturnStep]_vars

\* A batch in which the document read second has the higher risk and comes
\* first.
C17_Witness ==
  /\ ret.op = "analyzeOrganization"
  /\ Len(ret.doc) = 2
  /\ ret.doc[1].docId = DocIdSeq[2]
  /\ riskOrder[ret.doc[1].riskLevel] > riskOrder[ret.doc[2].riskLevel]

\* C18: in analyzeOrganization a failure while analysing one document is
\* caught: that document is logged and left out, the analyses made so far
\* are kept, the documents after it are still analysed, and the batch
\* returns a list, never an error.
C18_LoopStep ==
  \A p \in Procs :
    pc[p] \in {"org_doc", "org_video"} =>
      LET done     == pc'[p] = "idle"
          logged   == IF done THEN ret'.logged ELSE loc'[p].logged
          analyses == IF done THEN ret'.doc ELSE loc'[p].analyses
          pending  == IF done THEN << >> ELSE loc'[p].pending
          idsOf(s) == {s[i].docId : i \in 1..Len(s)}
      IN  /\ done => ret'.kind = "ok" /\ ret'.op = "analyzeOrganization"
          /\ Len(logged) > Len(loc[p].logged) =>
               /\ logged = Append(loc[p].logged, Head(loc[p].pending))
               /\ Head(loc[p].pending) \notin idsOf(analyses)
               /\ idsOf(analyses) = idsOf(loc[p].analyses)
               /\ pending = Tail(loc[p].pending)
          /\ done =>
               /\ Len(analyses) + Len(logged) = Len(loc[p].snapshot)
               /\ idsOf(analyses) \cup {logged[i] : i \in 1..Len(logged)} =
                    {loc[p].snapshot[i] : i \in 1..Len(loc[p].snapshot)}

C18_BatchSurvivesFailure == [][C18_LoopStep]_vars

\* A batch of two in which the first analysis failed and the second was
\* made and returned.
C18_Witness ==
  /\ ret.op = "analyzeOrganization"
  /\ ret.logged = <<DocIdSeq[1]>>
  /\ Len(ret.doc) = 1
  /\ ret.doc[1].docId = DocIdSeq[2]

\* C19: the document createDocumentFromVideoPOP creates from a completed
\* extraction record has maintenanceCost = stepCount * 50 +
\* nonConformityCount * 200, the counts being the lengths of the record's
\* step and non-conformity lists (0 for a missing list): 400 for four steps
\* and one non-conformity.  The document returned carries the same cost.
C19_CostOf(popData) ==
  LET stepCount == IF popData.etapas = {} THEN 0
                   ELSE Len(ValueOf(popData.etapas))
      nonConformityCount == IF popData.naoConformidades = {} THEN 0
                            ELSE Len(ValueOf(popData.naoConformidades))
  IN  stepCount * 50 + nonConformityCount * 200

C19_CreateStep ==
  \A p \in Procs :
    /\ pc[p] = "video_create" /\ pc'[p] = "video_link_pop" =>
         LET record == pops[<<loc[p].companyId, loc[p].videoId>>]
             stored == docs'[loc[p].document.docId]
         IN  /\ stored.exists
             /\ stored.axiomaMetrics.custoManutencao =
                  C19_CostOf(ValueOf(record.popData))
    /\ /\ pc[p] = "video_link_doc"
       /\ ret'.op = "createDocumentFromVideoPOP"
       /\ ret'.kind = "ok"
       => LET record == pops[<<loc[p].companyId, loc[p].videoId>>]
          IN  /\ ret'.doc.axiomaMetrics.custoManutencao =
                   C19_CostOf(ValueOf(record.popData))
              /\ docs'[ret'.doc.docId].axiomaMetrics.custoManutencao =
                   ret'.doc.axiomaMetrics.custoManutencao

C19_MaintenanceCost == [][C19_CreateStep]_vars

\* A document created from a record of four steps and one non-conformity
\* has been returned with cost 400.
C19_Witness ==
  /\ ret.op = "createDocumentFromVideoPOP"
  /\ ret.kind = "ok"
  /\ ret.doc.axiomaMetrics.custoManutencao = 400
  /\ \E record \in {pops[<<"orgA", ret.docId>>]} :
       /\ \E etapas \in ValueOf(record.popData).etapas : Len(etapas) = 4
       /\ \E ncs \in ValueOf(record.popData).naoConformidades : Len(ncs) = 1

\* C20: calculateMarginImpact(score, count) is High when score < 70 or
\* count > 3; otherwise Medium when score < 85 or count > 1; otherwise Low:
\* for the score and count of every record a document is created from, and
\* for every score in 0..100 with every count in 0..5.
C20_Impact(score, count) ==
  CASE score < 70 \/ count > 3 -> "alto"
    [] score >= 70 /\ count <= 3 /\ (score < 85 \/ count > 1) -> "médio"
    [] score >= 85 /\ count <= 1 -> "baixo"

C20_ComputeStep ==
  \A p \in Procs :
    pc[p] = "idle" /\ pc'[p] = "video_create" =>
      LET popData == ValueOf(pops[<<loc'[p].companyId,
                                    loc'[p].videoId>>].popData)
          score   == IF popData.scoreConformidade = {} THEN 0
                     ELSE ValueOf(popData.scoreConformidade)
          count   == IF popData.naoConformidades = {} THEN 0
                     ELSE Len(ValueOf(popData.naoConformidades))
      IN  /\ loc'[p].documentInput.impactoMargem = {C20_Impact(score, count)}
          /\ loc'[p].document.axiomaMetrics.impactoMargem =
               C20_Impact(score, count)
          /\ \A s \in 0..100, c \in 0..5 :
               calculateMarginImpact(s, c) = C20_Impact(s, c)

C20_MarginImpact == [][C20_ComputeStep]_vars

\* A record of score 85 with more than one non-conformity gave Medium.
C20_Witness ==
  /\ pc["p1"] = "video_create"
  /\ loc["p1"].documentInput.impactoMargem = {"médio"}
  /\ ValueOf(pops[<<"orgA", loc["p1"].videoId>>].popData).scoreConformidade
       = {85}

\* C21: a createDocumentFromVideoPOP call that finds no extraction record
\* throws the not-found error, and one that finds a record whose status is
\* not "completed" throws the not-ready error; in both cases the call ends
\* there with the error handed to the caller, no document stored, no id
\* taken and no record written.
C21_CallStep ==
  \A p \in Procs :
    /\ pc[p] = "idle"
    /\ \/ pc'[p] = "video_create"
       \/ ret'.proc = p /\ ret'.op = "createDocumentFromVideoPOP"
    => LET videoId == IF pc'[p] = "video_create" THEN loc'[p].videoId
                      ELSE ret'.docId
           record  == pops[<<"orgA", videoId>>]
           failed  == ~record.exists \/ record.status # "completed"
       IN  /\ failed =>
                 /\ ret' = Err(p, "createDocumentFromVideoPOP", videoId,
                               IF record.exists THEN "PopNotCompleted"
                               ELSE "PopNotFound")
                 /\ pc'[p] = "idle"
                 /\ UNCHANGED <<docs, pops, nextId, history>>
           /\ ~failed => pc'[p] = "video_create" /\ ret' = NoRet

C21_MissingOrUnfinishedRejected == [][C21_CallStep]_vars

\* A call on a record of a failed extraction has thrown the not-ready error,
\* and the store holds no document.
C21_Witness ==
  /\ ret = Err("p1", "createDocumentFromVideoPOP", VideoIdSeq[1],
               "PopNotCompleted")
  /\ pops[<<"orgA", VideoIdSeq[1]>>].exists
  /\ pops[<<"orgA", VideoIdSeq[1]>>].status = "failed"
  /\ \A d \in DocIds : ~docs[d].exists

\* C22: when createDocumentFromVideoPOP(companyId, videoId) returns a
\* document, the call has stored exactly one new document, of type POP,
\* status Draft, version 0.1 and orgId = companyId, and the link holds both
\* ways: the record's linkedDocumentId is the document's id and the stored
\* document's videoId is videoId.  No other step of the call adds or removes
\* a document.
C22_CallStep ==
  \A p \in Procs :
    /\ pc[p] = "video_create" /\ pc'[p] = "video_link_pop" =>
         LET docId == loc[p].document.docId
         IN  /\ ~docs[docId].exists
             /\ docs'[docId].exists
             /\ \A d \in DocIds \ {docId} : docs'[d] = docs[d]
    /\ pc[p] \in {"video_link_pop", "video_link_get", "video_link_doc"} =>
         \A d \in DocIds : docs'[d].exists = docs[d].exists
    /\ /\ pc[p] = "video_link_doc"
       /\ ret'.op = "createDocumentFromVideoPOP"
       /\ ret'.kind = "ok"
       => LET docId  == ret'.doc.docId
              stored == docs'[docId]
              record == pops'[<<loc[p].companyId, loc[p].videoId>>]
          IN  /\ docId = loc[p].document.docId
              /\ stored.exists
              /\ stored.tipo = "POP"
              /\ stored.status = "rascunho"
              /\ stored.versao = <<0, 1>>
              /\ stored.orgId = loc[p].companyId
              /\ HasVideo(stored)
              /\ stored.videoId = loc[p].videoId
              /\ record.exists
              /\ record.linkedDocumentId = {docId}
              /\ \A d \in DocIds :
                   docs'[d].exists /\ HasVideo(docs'[d])
                   /\ docs'[d].videoId = loc[p].videoId => d = docId

C22_CreatedAndLinked == [][C22_CallStep]_vars

\* A call has returned the document it created, and the document and the
\* record point at each other.
C22_Witness ==
  /\ ret.op = "createDocumentFromVideoPOP"
  /\ ret.kind = "ok"
  /\ docs[ret.doc.docId].exists
  /\ HasVideo(docs[ret.doc.docId])
  /\ docs[ret.doc.docId].videoId = ret.docId
  /\ pops[<<"orgA", ret.docId>>].linkedDocumentId = {ret.doc.docId}

\* C23: findUnlinkedVideoPOPs(companyId) returns exactly the ids of the
\* company's extraction records that have status "completed" and no
\* recorded link: records as VideoProcessor writes them (without a
\* linkedDocumentId field) are returned, records that
\* createDocumentFromVideoPOP has linked are not.
C23_FindStep ==
  \A p \in Procs :
    ret'.proc = p /\ ret'.op = "findUnlinkedVideoPOPs" =>
      {ret'.doc[i] : i \in DOMAIN ret'.doc} =
        {v \in VideoIds :
           LET record == pops[<<ret'.orgId, v>>]
           IN  /\ record.exists
               /\ record.status = "completed"
               /\ record.linkedDocumentId \cap DocIds = {}}

C23_FindsUnlinked == [][C23_FindStep]_vars

\* C24: autoProcessUnlinkedPOPs attempts createDocumentFromVideoPOP once for
\* each id its findUnlinkedVideoPOPs query returned, in order; an item that
\* fails is logged and the loop goes on with the next id; the run itself
\* always returns, and the count it returns is the number of ids for which
\* a document was created and linked.
C24_Outcomes(logged, outcome) ==
  {i \in DOMAIN logged : logged[i][2] = outcome}

C24_LoopStep ==
  \A p \in Procs :
    /\ /\ pc[p] = "idle"
       /\ \/ pc'[p] = "auto_get"
          \/ ret'.proc = p /\ ret'.op = "autoProcessUnlinkedPOPs"
       =>
         LET found == UnlinkedVideoPOPs(pops, "orgA")
         IN  IF found = << >>
               THEN ret'.unlinkedPOPs = << >> /\ ret'.doc = 0
               ELSE /\ loc'[p].unlinkedPOPs = found
                    /\ loc'[p].pending = found
                    /\ loc'[p].processed = 0
    /\ pc[p] \in {"auto_get", "auto_link_pop", "auto_link_doc"}
       /\ pc'[p] \in {"auto_get", "idle"}
       /\ (pc'[p] # pc[p] \/ loc'[p] # loc[p])
       => LET l       == loc[p]
              videoId == Head(l.pending)
              after   == IF pc'[p] = "idle" THEN ret'.logged
                         ELSE loc'[p].logged
              count   == IF pc'[p] = "idle" THEN ret'.doc
                         ELSE loc'[p].processed
              done    == /\ pc[p] = "auto_link_doc"
                         /\ docs'[l.document.docId].exists
                         /\ HasVideo(docs'[l.document.docId])
                         /\ docs'[l.document.docId].videoId = videoId
                         /\ pops'[<<l.companyId, videoId>>].exists
                         /\ pops'[<<l.companyId, videoId>>].linkedDocumentId
                              = {l.document.docId}
          IN  /\ after = Append(l.logged,
                                <<videoId, IF done THEN "ok" ELSE "error">>)
              /\ count = l.processed + (IF done THEN 1 ELSE 0)
              /\ pc'[p] = "auto_get" => loc'[p].pending = Tail(l.pending)
              /\ pc'[p] = "idle" <=> Tail(l.pending) = << >>
    /\ ret'.proc = p /\ ret'.op = "autoProcessUnlinkedPOPs" =>
         /\ ret'.kind = "ok"
         /\ [i \in DOMAIN ret'.logged |-> ret'.logged[i][1]]
              = ret'.unlinkedPOPs
         /\ ret'.doc = Cardinality(C24_Outcomes(ret'.logged, "ok"))

C24_BatchCountsCreated == [][C24_LoopStep]_vars

\* A run found two records, failed on the first, went on to create and link
\* a document for the second, and returned 1.
C24_Witness ==
  /\ ret.op = "autoProcessUnlinkedPOPs"
  /\ ret.unlinkedPOPs = VideoIdSeq
  /\ ret.logged = <<<<VideoIdSeq[1], "error">>, <<VideoIdSeq[2], "ok">>>>
  /\ ret.doc = 1
  /\ \E d \in DocIds :
       /\ docs[d].exists
       /\ HasVideo(docs[d])
       /\ docs[d].videoId = VideoIdSeq[2]
       /\ pops[<<"orgA", VideoIdSeq[2]>>].linkedDocumentId = {d}

\* C25: a document becomes 'ativo' only in the writing step of an
\* approveDocument call on it and 'obsoleto' only in the writing step of an
\* obsoleteDocument call on it, and 'obsoleto' is terminal: once an
\* obsoleteDocument call has written it, no later step (the write of an
\* approveDocument call that read the document earlier included) makes the
\* document anything else.
C25_StatusStep(d) ==
  /\ /\ docs'[d].exists /\ docs'[d].status = "ativo"
     /\ ~(docs[d].exists /\ docs[d].status = "ativo")
     => \E p \in Procs : ApproveReturnStep(p) /\ loc[p].docId = d
  /\ /\ docs'[d].exists /\ docs'[d].status = "obsoleto"
     /\ ~(docs[d].exists /\ docs[d].status = "obsoleto")
     => \E p \in Procs : ObsoleteReturnStep(p) /\ loc[p].docId = d
  /\ docs[d].exists /\ docs[d].status = "obsoleto" =>
       docs'[d].exists /\ docs'[d].status = "obsoleto"

C25_ObsoleteIsTerminal == [][\A d \in DocIds : C25_StatusStep(d)]_vars

\* C26: in every reachable state each stored document's impactoMargem is
\* one of the three values of the ImpactoMargem type ('alto', 'medio',
\* 'baixo') and its custoManutencao is not negative, for documents stored by
\* createDocument and by createDocumentFromVideoPOP alike.
C26_MetricsInDomain ==
  \A d \in DocIds :
    docs[d].exists =>
      /\ docs[d].axiomaMetrics.impactoMargem \in {"alto", "medio", "baixo"}
      /\ docs[d].axiomaMetrics.custoManutencao >= 0

\* C27: the risk level evaluateRevisionNeed returns follows the documented
\* table: High when the score is below 70 or the non-conformities are more
\* than 3 or the last revision is more than 180 days back; otherwise Medium
\* when the score is below 85 or the non-conformities are more than 1 or
\* the last revision is more than 90 days back; otherwise Low.
C27_ReturnStep ==
  \A p \in Procs :
    pc[p] = "eval_return" /\ pc'[p] = "idle" =>
      LET days   == loc[p].daysSinceLastRevision
          score  == loc[p].scoreConformidade
          nc     == loc[p].naoConformidades
          high   == \/ \E x \in score : x < 70
                    \/ \E x \in nc : x > 3
                    \/ days > 180
          medium == \/ \E x \in score : x < 85
                    \/ \E x \in nc : x > 1
                    \/ days > 90
      IN  ret'.doc.riskLevel =
            IF high THEN "alto" ELSE IF medium THEN "médio" ELSE "baixo"

C27_DocumentedRiskTable == [][C27_ReturnStep]_vars

\* C28: cleanupObsoleteDocuments(daysOld, dryRun) deletes nothing in a dry
\* run; in execute mode it deletes exactly the documents that were obsolete
\* with a last revision older than now minus daysOld days when it ran its
\* query, so never a draft, in-review or active document; and the removed
\* count it returns is the number of documents selected.
C28_Selected(ds, now, daysOld) ==
  {d \in DOMAIN ds :
     /\ ds[d].exists
     /\ ds[d].status = "obsoleto"
     /\ ds[d].metadata.ultimaRevisao < now - daysOld * DayTicks}

C28_CleanupStep ==
  \A p \in Procs :
    /\ /\ pc[p] = "idle" /\ pc'[p] = "idle"
       /\ ret'.proc = p /\ ret'.op = "cleanupObsoleteDocuments"
       => /\ docs' = docs
          /\ ret'.dryRun \/ C28_Selected(docs, clock, ret'.daysOld) = {}
          /\ ret'.doc.removed =
               Cardinality(C28_Selected(docs, clock, ret'.daysOld))
    /\ pc[p] = "idle" /\ pc'[p] = "cleanup_commit" =>
         /\ docs' = docs
         /\ {loc'[p].snapshot[i] : i \in DOMAIN loc'[p].snapshot} =
              C28_Selected(docs, clock, loc'[p].daysOld)
    /\ pc[p] = "cleanup_commit" /\ pc'[p] = "idle" =>
         LET selected == {loc[p].snapshot[i] : i \in DOMAIN loc[p].snapshot}
         IN  /\ \A d \in DOMAIN docs :
                  IF d \in selected THEN ~docs'[d].exists
                  ELSE docs'[d] = docs[d]
             /\ ret'.doc.removed = Cardinality(selected)

C28_CleanupDeletesSelected == [][C28_CleanupStep]_vars

\* C29: an extraction record gives rise to at most one document, however
\* createDocumentFromVideoPOP calls on it repeat or overlap: a record's
\* linkedDocumentId, once set, never changes, and no two stored documents
\* carry the same videoId.
C29_LinkStep ==
  /\ \A k \in PopKeys :
       pops[k].exists /\ pops[k].linkedDocumentId \cap DocIds # {} =>
         pops'[k].exists /\ pops'[k].linkedDocumentId = pops[k].linkedDocumentId
  /\ \A d \in DocIds, e \in DocIds :
       /\ docs'[d].exists /\ HasVideo(docs'[d])
       /\ docs'[e].exists /\ HasVideo(docs'[e])
       /\ docs'[d].orgId = docs'[e].orgId
       /\ docs'[d].videoId = docs'[e].videoId
       => d = e

C29_OneDocumentPerRecord == [][C29_LinkStep]_vars

\* C30: a createDocumentFromVideoPOP call that throws leaves the store as
\* it found it.  A call that throws at its first read has written nothing;
\* a call that throws after createDocument stored the document (the link
\* write failed because the record was removed) leaves neither that
\* document nor a link to it; and when a call ends, the record names the
\* document exactly if the document names the video.
C30_ReturnStep ==
  \A p \in Procs :
    ret'.proc = p /\ ret'.op = "createDocumentFromVideoPOP" =>
      IF pc[p] = "idle"
        THEN ret'.kind # "ok" /\ docs' = docs /\ pops' = pops
        ELSE LET docId  == loc[p].document.docId
                 record == pops'[<<loc[p].companyId, loc[p].videoId>>]
                 linked == /\ record.exists
                           /\ record.linkedDocumentId = {docId}
                 named  == /\ docs'[docId].exists
                           /\ HasVideo(docs'[docId])
                           /\ docs'[docId].videoId = loc[p].videoId
             IN  /\ ret'.kind # "ok" => ~docs'[docId].exists /\ ~linked
                 /\ linked <=> named

C30_FailureLeavesNothing == [][C30_ReturnStep]_vars
====
